---- MODULE Spec2Model ----
(***************************************************************************)
(* Model of the multi-agent test generation engine:                        *)
(*   - ParallelTestingWorkflow.run_parallel (the iteration loop, the       *)
(*     parallel batch of iteration 1, the targeted fix of iterations >= 2, *)
(*     the validation phase and the final report), and                     *)
(*   - ValidatorAgent (analyze_import_errors, verify_tests, process).      *)
(*                                                                         *)
(* Two specifications share the variables:                                 *)
(*   Spec     the whole session run by run_parallel; the validator is one  *)
(*            step of it, applied to a sample of tool outputs;             *)
(*   ValSpec  one call of ValidatorAgent.process, stepped through the      *)
(*            tool invocations of verify_tests, over all tool outputs of   *)
(*            the bounded set.                                             *)
(*   LiveSpec is Spec with weak fairness of the event loop.                *)
(***************************************************************************)
EXTENDS Integers, Sequences, FiniteSets, TLC

(***************************************************************************)
(* Bounds                                                                  *)
(***************************************************************************)
\* largest max_iterations a session is started with
MaxIterBound == 2
\* largest number of test_*.py files in one category directory
MaxFiles == 1
\* largest number of lines in one tool output of ValSpec
MaxLines == 2
\* how many messages a worker adds in place to the message list it was given
MaxAppends == 1
\* how many ids a Database hands out for tasks, and for users
MaxIds == 3

(***************************************************************************)
(* The closed sets of the source                                           *)
(***************************************************************************)
\* keys of agent_map, in the order of the gather() arguments
AgentOrder == <<"unit_tester", "functional_tester", "integration_tester">>
Agents == {AgentOrder[i] : i \in 1..3}

\* display name passed to _run_agent_async for each agent
AgentName(a) ==
    CASE a = "unit_tester" -> "UnitTester"
      [] a = "functional_tester" -> "FunctionalTester"
      [] a = "integration_tester" -> "IntegrationTester"

\* keys of test_dirs, in dict order
TypeOrder == <<"unit", "functional", "integration">>
Types == {TypeOrder[i] : i \in 1..3}

None == "None"

(***************************************************************************)
(* Tool output: a sequence of lines, a line being the sequence of its      *)
(* whitespace-separated parts (line.split()).                              *)
(***************************************************************************)
\* parts for which int() succeeds, and the value it yields
NumTok == {"0", "1", "2"}
IntOf(tok) ==
    CASE tok = "0" -> 0
      [] tok = "1" -> 1
      [] tok = "2" -> 2

\* parts p with 'passed' in p, resp. 'failed' in p
PassedToks == {"passed", "passed,", "xpassed", "xpassed,"}
FailedToks == {"failed", "failed,", "xfailed", "xfailed,"}

\* parts matching "ModuleNotFoundError: No module named '<m>'", with <m>
MNFToks == {"ModuleNotFoundError:mod", "ModuleNotFoundError:pkg_a",
            "ModuleNotFoundError:sys"}
ModuleOf(tok) ==
    CASE tok = "ModuleNotFoundError:mod" -> "mod"
      [] tok = "ModuleNotFoundError:pkg_a" -> "pkg_a"
      [] tok = "ModuleNotFoundError:sys" -> "sys"
\* parts matching "ImportError: (.+)"
ImpErrToks == {"ImportError:cannot"}

\* m.startswith(('sys', 'os', 'json', 'typing', 'pathlib'))
IsStdPrefix(m) == m \in {"sys"}
\* '_' in m or '-' in m
HasSpecial(m) == m \in {"pkg_a"}

\* the lines the tool prints in this model
SampleLines ==
    { <<"2", "passed">>,
      <<"1", "failed,", "1", "passed">>,
      <<"1", "failed">>,
      <<"passed">>,
      <<"x", "passed">>,
      <<"1", "error">>,
      <<"E", "ModuleNotFoundError:mod">>,
      <<"E", "ModuleNotFoundError:pkg_a">>,
      <<"E", "ModuleNotFoundError:sys">>,
      <<"E", "ImportError:cannot">> }

\* every sequence of at most MaxLines sample lines
Outputs == UNION {[1..n -> SampleLines] : n \in 0..MaxLines}

(***************************************************************************)
(* Count parsing, validator_agent.py 236-253 and 283-300                   *)
(***************************************************************************)
\* for i, part in enumerate(parts): if kw in part and i > 0:
\*     try: count = int(parts[i-1])  except: pass
RECURSIVE ScanParts(_, _, _, _)
ScanParts(parts, i, kw, cur) ==
    IF i > Len(parts) THEN cur
    ELSE ScanParts(parts, i + 1, kw,
            IF parts[i] \in kw /\ i > 1 /\ parts[i-1] \in NumTok
            THEN IntOf(parts[i-1]) ELSE cur)

\* for line in result.stdout.split('\n'): ... (the last match wins)
RECURSIVE ParseCount(_, _, _)
ParseCount(lines, kw, cur) ==
    IF lines = <<>> THEN cur
    ELSE ParseCount(Tail(lines), kw, ScanParts(Head(lines), 1, kw, cur))

(***************************************************************************)
(* ValidatorAgent.analyze_import_errors                                    *)
(***************************************************************************)
PartsOf(output) == UNION {{output[i][j] : j \in 1..Len(output[i])} : i \in 1..Len(output)}

FixSysPath == [fix |-> "Add sys.path configuration to test files",
               action |-> "Add path configuration at the top of each test file",
               code |-> TRUE]
FixAskPath == [fix |-> "Ask supervisor for source code location",
               action |-> "Supervisor must provide the actual path to the source code being tested",
               code |-> FALSE]
FixNames == [fix |-> "Verify correct module names",
             action |-> "Test agents may be using wrong module names - check actual file names in source",
             code |-> FALSE]

\* verification before 'import_analysis' is set (the key is absent)
NoAnalysis ==
    [present |-> FALSE, has_import_errors |-> FALSE, missing_modules |-> {},
     error_details |-> <<>>, suggested_fixes |-> <<>>]

analyze_import_errors(output) ==
    LET module_errors == {ModuleOf(t) : t \in PartsOf(output) \cap MNFToks}
        import_errors == PartsOf(output) \cap ImpErrToks
        has == module_errors # {} \/ import_errors # {}
        missing == IF has THEN module_errors ELSE {}
        local_modules == {m \in missing : ~IsStdPrefix(m)}
    IN [present |-> TRUE,
        has_import_errors |-> has,
        missing_modules |-> missing,
        error_details |-> [i \in 1..Cardinality(missing) |-> "Module not found"],
        suggested_fixes |->
            (IF local_modules # {} THEN <<FixSysPath, FixAskPath>> ELSE <<>>)
            \o (IF \E m \in local_modules : HasSpecial(m) THEN <<FixNames>> ELSE <<>>)]

(***************************************************************************)
(* ValidatorAgent.verify_tests, one operator per tool invocation           *)
(***************************************************************************)
\* a verification dict that starts from success
NewVerification_Optimistic ==
    [files_found |-> <<>>,
     execution_success |-> TRUE,
     tests_passed |-> 0, tests_failed |-> 0, tests_total |-> 0,
     errors |-> <<>>,
     output |-> <<>>,
     import_analysis |-> NoAnalysis,
     by_type |-> [t \in Types |->
        [files |-> <<>>, passed |-> 0, failed |-> 0, total |-> 0, exists |-> FALSE]]]

\* the verification dict as created at lines 183-197
NewVerification ==
    [files_found |-> <<>>,
     execution_success |-> FALSE,
     tests_passed |-> 0, tests_failed |-> 0, tests_total |-> 0,
     errors |-> <<>>,
     output |-> <<>>,
     import_analysis |-> NoAnalysis,
     by_type |-> [t \in Types |->
        [files |-> <<>>, passed |-> 0, failed |-> 0, total |-> 0, exists |-> FALSE]]]

\* a category directory: whether it exists and how many test_*.py it holds
Dirs == {d \in [dir : BOOLEAN, nfiles : 0..MaxFiles] : ~d.dir => d.nfiles = 0}
FileSystems == [Types -> Dirs]

RelPaths(t, n) == [i \in 1..n |-> <<t, i>>]

\* a discovery that takes an existing directory for artifacts
RECURSIVE Discover_DirOnly(_, _, _)
Discover_DirOnly(v, fs, k) ==
    IF k > Len(TypeOrder) THEN v
    ELSE LET t == TypeOrder[k]
             found == fs[t].dir
         IN Discover_DirOnly(
              IF found
              THEN [v EXCEPT !.files_found = @ \o RelPaths(t, fs[t].nfiles),
                             !.by_type[t].exists = TRUE,
                             !.by_type[t].files = RelPaths(t, fs[t].nfiles)]
              ELSE v, fs, k + 1)

\* lines 206-215
RECURSIVE Discover(_, _, _)
Discover(v, fs, k) ==
    IF k > Len(TypeOrder) THEN v
    ELSE LET t == TypeOrder[k]
             found == fs[t].dir /\ fs[t].nfiles > 0
         IN Discover(
              IF found
              THEN [v EXCEPT !.files_found = @ \o RelPaths(t, fs[t].nfiles),
                             !.by_type[t].exists = TRUE,
                             !.by_type[t].files = RelPaths(t, fs[t].nfiles)]
              ELSE v, fs, k + 1)

\* lines 217-219
NoFilesReport(v) == [v EXCEPT !.errors = Append(@, "No test files found")]

\* what subprocess.run does: it returns a CompletedProcess or raises
Completed(out, err, rc) == [kind |-> "ok", stdout |-> out, stderr |-> err, returncode |-> rc]
TimeoutExpired == [kind |-> "TimeoutExpired", stdout |-> <<>>, stderr |-> <<>>, returncode |-> 0]
FileNotFoundError == [kind |-> "FileNotFoundError", stdout |-> <<>>, stderr |-> <<>>, returncode |-> 0]
OtherError == [kind |-> "Exception", stdout |-> <<>>, stderr |-> <<>>, returncode |-> 0]
RunErrors == {TimeoutExpired, FileNotFoundError, OtherError}

\* line 261
TypeErrorMsg(t) ==
    CASE t = "unit" -> "unit tests error"
      [] t = "functional" -> "functional tests error"
      [] t = "integration" -> "integration tests error"

\* lines 255-258
TypeTotal(passed, failed) == passed + failed

\* lines 227-261, the body of the per-type loop for a type that exists
RunType(v, t, run) ==
    IF run.kind = "ok"
    THEN LET p == ParseCount(run.stdout, PassedToks, v.by_type[t].passed)
             f == ParseCount(run.stdout, FailedToks, v.by_type[t].failed)
         IN [v EXCEPT !.by_type[t].passed = p,
                      !.by_type[t].failed = f,
                      !.by_type[t].total = TypeTotal(p, f)]
    ELSE [v EXCEPT !.errors = Append(@, TypeErrorMsg(t))]

\* a total that forgets the failed tests
TestsTotal_PassedOnly(passed, failed) == passed

\* line 302
TestsTotal(passed, failed) == passed + failed

\* lines 264-309
RunAll(v, run) ==
    IF run.kind = "ok"
    THEN LET out == run.stdout \o run.stderr
             ia == analyze_import_errors(out)
             p == ParseCount(run.stdout, PassedToks, v.tests_passed)
             f == ParseCount(run.stdout, FailedToks, v.tests_failed)
         IN [v EXCEPT !.output = out,
                      !.execution_success = (run.returncode = 0),
                      !.import_analysis = ia,
                      !.errors = IF ia.has_import_errors THEN @ \o ia.error_details ELSE @,
                      !.tests_passed = p,
                      !.tests_failed = f,
                      !.tests_total = TestsTotal(p, f)]
    ELSE [v EXCEPT !.errors = Append(@,
            CASE run.kind = "TimeoutExpired" -> "Test execution timed out"
              [] run.kind = "FileNotFoundError" -> "pytest not found - cannot verify tests"
              [] OTHER -> "Error running tests")]

\* the per-type loop of lines 222-261 over the types from index k on
RECURSIVE RunTypes(_, _, _)
RunTypes(v, runs, k) ==
    IF k > Len(TypeOrder) THEN v
    ELSE LET t == TypeOrder[k]
         IN RunTypes(IF v.by_type[t].exists THEN RunType(v, t, runs[t]) ELSE v, runs, k + 1)

\* verify_tests as a whole: fs is the artifact root, runs[t] the outcome of the
\* tool on category t, all the outcome of the tool on the artifact root
verify_tests(fs, runs, all) ==
    LET v1 == Discover(NewVerification, fs, 1)
    IN IF v1.files_found = <<>> THEN NoFilesReport(v1)
       ELSE RunAll(RunTypes(v1, runs, 1), all)

(***************************************************************************)
(* ValidatorAgent.process, lines 405-452                                   *)
(***************************************************************************)
\* the blocking test on the captured module names instead of the flag
BlockingRoute_ModulesOnly(v) ==
    /\ v.import_analysis.present /\ v.import_analysis.missing_modules # {}
    /\ v.tests_total = 0

\* lines 406-409
BlockingRoute(v) ==
    /\ v.import_analysis.present /\ v.import_analysis.has_import_errors
    /\ v.tests_total = 0

\* ValidatorDecision.next
ValidatorAnswers == {"supervisor", "FINISH"}

\* the answer is taken as the target
GotoOf_Raw(answer) == answer

\* lines 436-443
GotoOf(answer) == IF answer = "FINISH" THEN "__end__" ELSE answer

\* the Command returned: the target, where the rationale comes from, the
\* repair actions the rationale lists, whether self.llm was invoked, and the
\* names of the messages of its update (lines 445-452)
process(v, answer) ==
    IF BlockingRoute(v)
    THEN [goto |-> "supervisor", kind |-> "auto",
          actions |-> [i \in 1..Len(v.import_analysis.suggested_fixes) |->
                          v.import_analysis.suggested_fixes[i].action],
          llm |-> FALSE, names |-> <<"validator">>]
    ELSE [goto |-> GotoOf(answer), kind |-> "llm", actions |-> <<>>, llm |-> TRUE,
          names |-> <<"validator">>]

(***************************************************************************)
(* sample_project/database.py: the Database as a value                     *)
(***************************************************************************)
\* Database.__init__, lines 11-15
NewDatabase == [tasks |-> <<>>, users |-> <<>>, next_task_id |-> 1, next_user_id |-> 1]

\* Task(id=..., title=...), completed defaults to False
Task(id, title) == [id |-> id, title |-> title, completed |-> FALSE]
NoTask == [id |-> 0, title |-> None, completed |-> FALSE]
\* User(id=..., username=...)
User(id, username) == [id |-> id, username |-> username]

\* list.remove(x): the list without its first element equal to x
RECURSIVE RemoveFirst(_, _)
RemoveFirst(seq, x) ==
    IF seq = <<>> THEN <<>>
    ELSE IF Head(seq) = x THEN Tail(seq)
    ELSE <<Head(seq)>> \o RemoveFirst(Tail(seq), x)

\* an id taken from the length of the list
add_task_ByLength(d, title) ==
    [d EXCEPT !.tasks = Append(@, Task(Len(d.tasks) + 1, title)),
              !.next_task_id = @ + 1]

\* lines 17-26
add_task(d, title) ==
    [d EXCEPT !.tasks = Append(@, Task(d.next_task_id, title)),
              !.next_task_id = @ + 1]

\* lines 28-33
RECURSIVE get_task(_, _)
get_task(tasks, task_id) ==
    IF tasks = <<>> THEN NoTask
    ELSE IF Head(tasks).id = task_id THEN Head(tasks)
    ELSE get_task(Tail(tasks), task_id)

\* a copy that is not made
get_all_tasks_NoCopy(d) == [list |-> d.tasks, shared |-> TRUE]

\* lines 35-37: the list returned, and whether it is the stored list object
get_all_tasks(d) == [list |-> d.tasks, shared |-> FALSE]

\* a deletion by position
delete_task_ByIndex(d, task_id) ==
    IF task_id \in 1..Len(d.tasks)
    THEN [db |-> [d EXCEPT !.tasks =
                     SubSeq(@, 1, task_id - 1) \o SubSeq(@, task_id + 1, Len(@))],
          value |-> TRUE]
    ELSE [db |-> d, value |-> FALSE]

\* lines 39-45: the database after the call, and the value returned
delete_task(d, task_id) ==
    LET task == get_task(d.tasks, task_id)
    IN IF task # NoTask
       THEN [db |-> [d EXCEPT !.tasks = RemoveFirst(@, task)], value |-> TRUE]
       ELSE [db |-> d, value |-> FALSE]

\* lines 47-56
add_user(d, username) ==
    [d EXCEPT !.users = Append(@, User(d.next_user_id, username)),
              !.next_user_id = @ + 1]

\* lines 58-63 and 65-70: the stored users are looked up first match first
NoUser == [id |-> 0, username |-> None]
RECURSIVE get_user_by_username(_, _)
get_user_by_username(users, username) ==
    IF users = <<>> THEN NoUser
    ELSE IF Head(users).username = username THEN Head(users)
    ELSE get_user_by_username(Tail(users), username)

(***************************************************************************)
(* sample_project/models.py, services.py and api.py                        *)
(***************************************************************************)
\* a str argument: the text, what strip() makes of it, and its len()
Str(text, stripped, length) == [text |-> text, stripped |-> stripped, len |-> length]
NoStr == Str("", "", 0)
strip(s) == s.stripped
len(s) == s.len

\* services.py line 20 and line 58
MaxTitleLen == 100
MinUsernameLen == 3

\* str.split('@'): the segments between the '@' of a sequence of characters
RECURSIVE split(_, _)
split(chars, cur) ==
    IF chars = <<>> THEN <<cur>>
    ELSE IF Head(chars) = "@" THEN <<cur>> \o split(Tail(chars), <<>>)
    ELSE split(Tail(chars), Append(cur, Head(chars)))

Has(chars, c) == \E i \in 1..Len(chars) : chars[i] = c

\* models.py lines 42-44
validate_email(email) == Has(email, "@") /\ Has(split(email, <<>>)[2], ".")

\* the outcome of a service call: the database it leaves, the message of the
\* ValueError it raised (None when it returned) and the id of what it returned
Returned(d, id) == [db |-> d, error |-> None, id |-> id]
Raised(d, message) == [db |-> d, error |-> message, id |-> 0]

\* the task is stored before its title is validated
create_task_StoreFirst(d, title) ==
    IF len(title) = 0 \/ strip(title) = ""
    THEN Raised(add_task(d, strip(title)), "Task title cannot be empty")
    ELSE IF len(title) > MaxTitleLen
    THEN Raised(add_task(d, strip(title)), "Task title too long (max 100 characters)")
    ELSE Returned(add_task(d, strip(title)), d.next_task_id)

\* services.py lines 15-23
create_task(d, title) ==
    IF len(title) = 0 \/ strip(title) = ""
    THEN Raised(d, "Task title cannot be empty")
    ELSE IF len(title) > MaxTitleLen
    THEN Raised(d, "Task title too long (max 100 characters)")
    ELSE Returned(add_task(d, strip(title)), d.next_task_id)

\* api.py lines 17-39: data is <<>> without a 'title' key, <<title>> with one
api_create_task(d, data) ==
    LET title == IF data = <<>> THEN NoStr ELSE data[1]
        r == create_task(d, title)
    IN [db |-> r.db, success |-> r.error = None, error |-> r.error, id |-> r.id]

\* Task.mark_completed on the stored task with this id, lines 23-26 of models.py
RECURSIVE mark_completed(_, _)
mark_completed(tasks, task_id) ==
    IF tasks = <<>> THEN <<>>
    ELSE IF Head(tasks).id = task_id
    THEN <<[Head(tasks) EXCEPT !.completed = TRUE]>> \o Tail(tasks)
    ELSE <<Head(tasks)>> \o mark_completed(Tail(tasks), task_id)

\* the task at a position is marked
complete_task_ByIndex(d, task_id) ==
    IF task_id \in 1..Len(d.tasks)
    THEN [db |-> [d EXCEPT !.tasks[task_id].completed = TRUE], value |-> TRUE]
    ELSE [db |-> d, value |-> FALSE]

\* services.py lines 25-32
complete_task(d, task_id) ==
    IF get_task(d.tasks, task_id) = NoTask
    THEN [db |-> d, value |-> FALSE]
    ELSE [db |-> [d EXCEPT !.tasks = mark_completed(@, task_id)], value |-> TRUE]

\* services.py lines 34-36 and 38-40
get_pending_tasks(d) == SelectSeq(get_all_tasks(d).list, LAMBDA t : ~t.completed)
get_completed_tasks(d) == SelectSeq(get_all_tasks(d).list, LAMBDA t : t.completed)

\* a registration that does not look the username up
register_user_NoLookup(d, username, email) ==
    IF len(username) = 0 \/ strip(username) = ""
    THEN Raised(d, "Username cannot be empty")
    ELSE IF len(username) < MinUsernameLen
    THEN Raised(d, "Username too short (min 3 characters)")
    ELSE IF validate_email(email)
    THEN Returned(add_user(d, username.text), d.next_user_id)
    ELSE Raised(add_user(d, username.text), "Invalid email format")

\* a registration that validates the email before it stores the user
register_user_ValidateFirst(d, username, email) ==
    IF len(username) = 0 \/ strip(username) = ""
    THEN Raised(d, "Username cannot be empty")
    ELSE IF len(username) < MinUsernameLen
    THEN Raised(d, "Username too short (min 3 characters)")
    ELSE IF get_user_by_username(d.users, username.text) # NoUser
    THEN Raised(d, "Username already exists")
    ELSE IF validate_email(email)
    THEN Returned(add_user(d, username.text), d.next_user_id)
    ELSE Raised(d, "Invalid email format")

\* services.py lines 53-70: the user is added at line 65, its email is
\* validated at line 67
register_user(d, username, email) ==
    IF len(username) = 0 \/ strip(username) = ""
    THEN Raised(d, "Username cannot be empty")
    ELSE IF len(username) < MinUsernameLen
    THEN Raised(d, "Username too short (min 3 characters)")
    ELSE IF get_user_by_username(d.users, username.text) # NoUser
    THEN Raised(d, "Username already exists")
    ELSE IF validate_email(email)
    THEN Returned(add_user(d, username.text), d.next_user_id)
    ELSE Raised(add_user(d, username.text), "Invalid email format")

(***************************************************************************)
(* State                                                                   *)
(***************************************************************************)
VARIABLES
    pc,                 \* position of run_parallel
    max_iterations,     \* its argument
    iteration,          \* locals of run_parallel, by their names
    tests_can_execute,
    all_messages,
    all_iterations,
    results,
    successful_results,
    validation_result,
    supervisor_result,
    status,             \* the three tasks of the iteration-1 batch
    task_result,        \* what each _run_agent_async coroutine returned
    timed_out,          \* whether wait_for raised TimeoutError
    fix,                \* the task of the current fix iteration
    fix_result,
    agent_state,        \* the state last handed to each agent's process
    dispatched,         \* per iteration, the agents whose task was started
    calls,              \* how often each collaborator was called
    ret,                \* the dict run_parallel returns
    verification,       \* the dict verify_tests builds, which process stores
                        \* under 'verification_details' of the state it was handed
    fs,                 \* the artifact root verify_tests looks at
    vpc,                \* position of ValidatorAgent.process
    vk,                 \* index of the per-type loop of verify_tests
    invoked,            \* the directories the tool was invoked on, in order
    command,            \* the Command ValidatorAgent.process returns
    outcomes,           \* what each tool invocation did, in the order of invoked
    finished,           \* the agents of the batch being awaited, in the order they ended
    appended,           \* how many messages each worker added in place to its state
    report_state,       \* the state dict handed to ReportAgent.process
    db,                 \* a Database of the sample project: its four attributes
    client,             \* what the caller of the Database holds: the last call and its value
    issued              \* the ids the Database has handed out and the ids deleted

vars == <<pc, max_iterations, iteration, tests_can_execute, all_messages,
          all_iterations, results, successful_results, validation_result,
          supervisor_result, status, task_result, timed_out, fix, fix_result,
          agent_state, dispatched, calls, ret, verification, fs, vpc, vk,
          invoked, command, outcomes, finished, appended, report_state,
          db, client, issued>>

\* the variables of one call of the validator
valVars == <<verification, fs, vpc, vk, invoked, command, outcomes>>
\* the variables of the session
runVars == <<pc, max_iterations, iteration, tests_can_execute, all_messages,
             all_iterations, results, successful_results, validation_result,
             supervisor_result, status, task_result, timed_out, fix, fix_result,
             agent_state, dispatched, ret, finished, appended, report_state>>
\* the variables of the sample project
dbVars == <<db, client, issued>>

(***************************************************************************)
(* Values                                                                  *)
(***************************************************************************)
\* HumanMessage(content, name); the content is identified by its kind and
\* by the iteration that produced it
Msg(name, kind, it) == [name |-> name, kind |-> kind, it |-> it]

\* initial_state["messages"], lines 104-108
UserMsg == Msg("user", "request", 0)

\* Command(update={"messages": msgs}, goto=goto)
Command(goto, msgs) == [goto |-> goto, messages |-> msgs]
NoCommand == Command(None, <<>>)

\* the dicts _run_agent_async returns, lines 71-76 and 80-85
SuccessResult(a, it) ==
    [agent |-> AgentName(a), success |-> TRUE, messages |-> <<Msg(a, "tests", it)>>,
     error |-> None]
FailureResult(a, it) ==
    [agent |-> AgentName(a), success |-> FALSE, messages |-> <<>>, error |-> "error"]
NoResult == [agent |-> None, success |-> FALSE, messages |-> <<>>, error |-> None]

\* what the caller holds before its first call
NoCall == [op |-> "none", value |-> FALSE, id |-> 0, list |-> <<>>, shared |-> FALSE,
           arg |-> NoStr, error |-> None]
\* no id handed out, none deleted
NoIds == [tasks |-> <<>>, users |-> <<>>, deleted |-> {}, completed |-> {}]

\* lines 241 and 288: a state dict made of the conversation, {"messages": ...};
\* verification_details is <<>> for a key that is not set, else <<the dict>>
StateDict(msgs) == [messages |-> msgs, verification_details |-> <<>>]
\* validator_agent.py lines 343-344: state['verification_details'] = verification
StoreDetails(state, v) == [state EXCEPT !.verification_details = <<v>>]
\* report_agent.py line 238: state.get("verification_details", {})
ReadDetails(state) == state.verification_details

NoFix == [agent |-> None, st |-> "none"]
NoRet == [iterations |-> <<>>, total_iterations |-> 0, tests_executable |-> FALSE,
          validation |-> NoCommand, returned |-> FALSE]

\* the concatenation of the message lists of a list of results
RECURSIVE MessagesOf(_)
MessagesOf(rs) == IF rs = <<>> THEN <<>> ELSE Head(rs).messages \o MessagesOf(Tail(rs))

(***************************************************************************)
(* run_parallel                                                            *)
(***************************************************************************)
\* the loop test with the bound off by one
LoopCond_OffByOne(it, max, can_execute) == it <= max /\ ~can_execute

\* line 115
LoopCond(it, max, can_execute) == it < max /\ ~can_execute

\* lines 115-123
LoopEnter ==
    /\ pc = "loop"
    /\ LoopCond(iteration, max_iterations, tests_can_execute)
    /\ iteration' = iteration + 1
    /\ dispatched' = Append(dispatched, {})
    /\ pc' = IF iteration' = 1 THEN "triage" ELSE "fix"
    /\ UNCHANGED <<max_iterations, tests_can_execute, all_messages, all_iterations,
                   results, successful_results, validation_result, supervisor_result,
                   status, task_result, timed_out, fix, fix_result, agent_state,
                   calls, ret>>
    /\ UNCHANGED valVars
    /\ UNCHANGED <<finished, appended>>
    /\ UNCHANGED dbVars
    /\ UNCHANGED report_state

\* line 115, the loop is left
LoopExit ==
    /\ pc = "loop"
    /\ ~LoopCond(iteration, max_iterations, tests_can_execute)
    /\ pc' = "report"
    /\ UNCHANGED <<max_iterations, iteration, tests_can_execute, all_messages,
                   all_iterations, results, successful_results, validation_result,
                   supervisor_result, status, task_result, timed_out, fix, fix_result,
                   agent_state, dispatched, calls, ret>>
    /\ UNCHANGED valVars
    /\ UNCHANGED <<finished, appended>>
    /\ UNCHANGED dbVars
    /\ UNCHANGED report_state

\* a batch made of the agent the supervisor chose
InitialBatch_OnlyChosen(decision) == {decision}

\* lines 150-155: the agents gather() is given, whatever the supervisor chose
InitialBatch(decision) == Agents

\* lines 140-144: the state of each agent of the batch
BatchState(initial, sup_msgs) == initial \o sup_msgs

\* lines 123-158: the supervisor's triage, then the three tasks are started
Triage ==
    /\ pc = "triage"
    /\ \E decision \in Agents :
         LET sup == Command(decision, <<Msg("supervisor", decision, iteration)>>)
         IN /\ supervisor_result' = sup
            /\ agent_state' = [a \in Agents |->
                  IF a \in InitialBatch(decision)
                  THEN BatchState(<<UserMsg>>, sup.messages) ELSE agent_state[a]]
            /\ status' = [a \in Agents |->
                  IF a \in InitialBatch(decision) THEN "running" ELSE status[a]]
            /\ dispatched' = [dispatched EXCEPT ![iteration] = InitialBatch(decision)]
    /\ calls' = [calls EXCEPT !.supervisor = @ + 1]
    /\ pc' = "gather"
    /\ UNCHANGED <<max_iterations, iteration, tests_can_execute, all_messages,
                   all_iterations, results, successful_results, validation_result,
                   task_result, timed_out, fix, fix_result, ret>>
    /\ UNCHANGED valVars
    /\ UNCHANGED <<finished, appended>>
    /\ UNCHANGED dbVars
    /\ UNCHANGED report_state

\* lines 140-144: the states whose "messages" entry is the list object that
\* the state of agent a holds (dict.copy() copies the dict, not the list)
SharedWith(a) == Agents

\* line 66 and process of the tester agents: the state handed to agent.process
\* goes to code_agent.invoke in the worker's thread, which may add a message
\* to its list in place
WorkerAppends(a) ==
    /\ iteration = 1
    /\ status[a] \in {"running", "abandoned"}
    /\ appended[a] < MaxAppends
    /\ appended' = [appended EXCEPT ![a] = @ + 1]
    /\ agent_state' = [b \in Agents |->
          IF b \in SharedWith(a)
          THEN Append(agent_state[b], Msg(a, "scratch", iteration))
          ELSE agent_state[b]]
    /\ UNCHANGED <<pc, max_iterations, iteration, tests_can_execute, all_messages,
                   all_iterations, results, successful_results, validation_result,
                   supervisor_result, status, task_result, timed_out, fix, fix_result,
                   dispatched, calls, ret, finished>>
    /\ UNCHANGED valVars
    /\ UNCHANGED dbVars
    /\ UNCHANGED report_state

\* lines 64-76: agent.process returned
WorkerReturns(a) ==
    /\ pc = "gather"
    /\ status[a] = "running"
    /\ status' = [status EXCEPT ![a] = "returned"]
    /\ task_result' = [task_result EXCEPT ![a] = SuccessResult(a, iteration)]
    /\ UNCHANGED <<pc, max_iterations, iteration, tests_can_execute, all_messages,
                   all_iterations, results, successful_results, validation_result,
                   supervisor_result, timed_out, fix, fix_result, agent_state,
                   dispatched, calls, ret>>
    /\ UNCHANGED valVars
    /\ finished' = Append(finished, a)
    /\ UNCHANGED appended
    /\ UNCHANGED dbVars
    /\ UNCHANGED report_state

\* lines 77-85: agent.process raised
WorkerRaises(a) ==
    /\ pc = "gather"
    /\ status[a] = "running"
    /\ status' = [status EXCEPT ![a] = "raised"]
    /\ task_result' = [task_result EXCEPT ![a] = FailureResult(a, iteration)]
    /\ UNCHANGED <<pc, max_iterations, iteration, tests_can_execute, all_messages,
                   all_iterations, results, successful_results, validation_result,
                   supervisor_result, timed_out, fix, fix_result, agent_state,
                   dispatched, calls, ret>>
    /\ UNCHANGED valVars
    /\ finished' = Append(finished, a)
    /\ UNCHANGED appended
    /\ UNCHANGED dbVars
    /\ UNCHANGED report_state

\* a wait that ends with the first task
GatherDone_FirstCompleted(st) == \E a \in Agents : st[a] \in {"returned", "raised"}

\* gather() is done when each of its awaitables is
GatherDone(st) == \A a \in Agents : st[a] \in {"returned", "raised"}

\* a gather() that gives the batch up as soon as one task failed
GatherResults_FailFast(tr) ==
    IF \E a \in Agents : ~tr[a].success THEN <<>>
    ELSE [i \in 1..Len(AgentOrder) |-> tr[AgentOrder[i]]]

\* a list in the order in which the tasks ended
GatherResults_AsCompleted(tr) == [i \in 1..Len(finished) |-> tr[finished[i]]]

\* lines 150-158: the list gather() returns, in the order of its arguments
GatherResults(tr) == [i \in 1..Len(AgentOrder) |-> tr[AgentOrder[i]]]

\* lines 159-161: the list the timeout handler leaves
TimeoutResults(tr) == <<>>

\* line 171
SuccessfulOf(rs) == SelectSeq(rs, LAMBDA r : r.success)

\* a merge that assigns instead of extending
Merge_Replace(msgs, sup_msgs, successful) == sup_msgs \o MessagesOf(successful)

\* lines 179-181
Merge(msgs, sup_msgs, successful) == msgs \o sup_msgs \o MessagesOf(successful)

\* lines 150-181, wait_for returns the list of gather()
BatchCompletes ==
    /\ pc = "gather"
    /\ GatherDone(status)
    /\ timed_out' = FALSE
    /\ results' = GatherResults(task_result)
    /\ successful_results' = SuccessfulOf(results')
    /\ all_messages' = Merge(all_messages, supervisor_result.messages, successful_results')
    /\ pc' = "validate"
    /\ UNCHANGED <<max_iterations, iteration, tests_can_execute, all_iterations,
                   validation_result, supervisor_result, status, task_result, fix,
                   fix_result, agent_state, dispatched, calls, ret>>
    /\ UNCHANGED valVars
    /\ UNCHANGED <<finished, appended>>
    /\ UNCHANGED dbVars
    /\ UNCHANGED report_state

\* lines 150-181, wait_for raises TimeoutError: the tasks still running are
\* cancelled, their threads go on
BatchTimeout ==
    /\ pc = "gather"
    /\ \E a \in Agents : status[a] = "running"
    /\ timed_out' = TRUE
    /\ status' = [a \in Agents |-> IF status[a] = "running" THEN "abandoned" ELSE status[a]]
    /\ results' = TimeoutResults(task_result)
    /\ successful_results' = SuccessfulOf(results')
    /\ all_messages' = Merge(all_messages, supervisor_result.messages, successful_results')
    /\ pc' = "validate"
    /\ UNCHANGED <<max_iterations, iteration, tests_can_execute, all_iterations,
                   validation_result, supervisor_result, task_result, fix,
                   fix_result, agent_state, dispatched, calls, ret>>
    /\ UNCHANGED valVars
    /\ UNCHANGED <<finished, appended>>
    /\ UNCHANGED dbVars
    /\ UNCHANGED report_state

\* the thread of a cancelled task ends; nobody reads its outcome
AbandonedEnds(a) ==
    /\ status[a] = "abandoned"
    /\ status' = [status EXCEPT ![a] = "discarded"]
    /\ UNCHANGED <<pc, max_iterations, iteration, tests_can_execute, all_messages,
                   all_iterations, results, successful_results, validation_result,
                   supervisor_result, task_result, timed_out, fix, fix_result,
                   agent_state, dispatched, calls, ret>>
    /\ UNCHANGED valVars
    /\ UNCHANGED <<finished, appended>>
    /\ UNCHANGED dbVars
    /\ UNCHANGED report_state

\* line 195: the message that wraps the validator's feedback
FixRequest(feedback) ==
    Msg("validator", IF feedback.kind = "auto" THEN "fix:auto" ELSE "fix:llm", feedback.it)

\* a fix state made of the feedback alone
FixState_FeedbackOnly(msgs, prev_validation) ==
    <<FixRequest(prev_validation.messages[Len(prev_validation.messages)])>>

\* lines 193-197
FixState(msgs, prev_validation) ==
    msgs \o <<FixRequest(prev_validation.messages[Len(prev_validation.messages)])>>

\* lines 188-189
HasFeedback(iterations) ==
    LET prev_validation == iterations[Len(iterations)].validation
    IN prev_validation # NoCommand /\ prev_validation.messages # <<>>

\* an iteration without feedback that runs the supervisor and the batch again
FixSkip_Redispatch ==
    /\ pc = "fix"
    /\ ~HasFeedback(all_iterations)
    /\ pc' = "triage"
    /\ UNCHANGED <<max_iterations, iteration, tests_can_execute, all_messages,
                   all_iterations, results, successful_results, validation_result,
                   supervisor_result, status, task_result, timed_out, fix, fix_result,
                   agent_state, dispatched, calls, ret>>
    /\ UNCHANGED valVars
    /\ UNCHANGED <<finished, appended>>
    /\ UNCHANGED dbVars
    /\ UNCHANGED report_state

\* lines 187-189 when the previous iteration left no validation: nothing is
\* dispatched, results and successful_results keep their values
FixSkip ==
    /\ pc = "fix"
    /\ ~HasFeedback(all_iterations)
    /\ pc' = "validate"
    /\ UNCHANGED <<max_iterations, iteration, tests_can_execute, all_messages,
                   all_iterations, results, successful_results, validation_result,
                   supervisor_result, status, task_result, timed_out, fix, fix_result,
                   agent_state, dispatched, calls, ret>>
    /\ UNCHANGED valVars
    /\ UNCHANGED <<finished, appended>>
    /\ UNCHANGED dbVars
    /\ UNCHANGED report_state

\* lines 187-218: the supervisor names the agent, whose task is started
\* (SupervisorDecision.next is one of the three keys of agent_map)
FixRoute ==
    /\ pc = "fix"
    /\ HasFeedback(all_iterations)
    /\ \E fix_decision \in Agents :
         LET sup == Command(fix_decision, <<Msg("supervisor", fix_decision, iteration)>>)
             fix_state == FixState(all_messages, all_iterations[Len(all_iterations)].validation)
         IN /\ supervisor_result' = sup
            /\ agent_state' = [agent_state EXCEPT ![fix_decision] = fix_state \o sup.messages]
            /\ fix' = [agent |-> fix_decision, st |-> "running"]
            /\ dispatched' = [dispatched EXCEPT ![iteration] = {fix_decision}]
    /\ calls' = [calls EXCEPT !.supervisor = @ + 1]
    /\ pc' = "await_fix"
    /\ UNCHANGED <<max_iterations, iteration, tests_can_execute, all_messages,
                   all_iterations, results, successful_results, validation_result,
                   status, task_result, timed_out, fix_result, ret>>
    /\ UNCHANGED valVars
    /\ UNCHANGED <<finished, appended>>
    /\ UNCHANGED dbVars
    /\ UNCHANGED report_state

\* lines 64-76 for the fix task
FixWorkerReturns ==
    /\ pc = "await_fix"
    /\ fix.st = "running"
    /\ fix' = [fix EXCEPT !.st = "returned"]
    /\ fix_result' = SuccessResult(fix.agent, iteration)
    /\ UNCHANGED <<pc, max_iterations, iteration, tests_can_execute, all_messages,
                   all_iterations, results, successful_results, validation_result,
                   supervisor_result, status, task_result, timed_out, agent_state,
                   dispatched, calls, ret>>
    /\ UNCHANGED valVars
    /\ UNCHANGED <<finished, appended>>
    /\ UNCHANGED dbVars
    /\ UNCHANGED report_state

\* lines 77-85 for the fix task
FixWorkerRaises ==
    /\ pc = "await_fix"
    /\ fix.st = "running"
    /\ fix' = [fix EXCEPT !.st = "raised"]
    /\ fix_result' = FailureResult(fix.agent, iteration)
    /\ UNCHANGED <<pc, max_iterations, iteration, tests_can_execute, all_messages,
                   all_iterations, results, successful_results, validation_result,
                   supervisor_result, status, task_result, timed_out, agent_state,
                   dispatched, calls, ret>>
    /\ UNCHANGED valVars
    /\ UNCHANGED <<finished, appended>>
    /\ UNCHANGED dbVars
    /\ UNCHANGED report_state

\* lines 218-227
FixCollect ==
    /\ pc = "await_fix"
    /\ fix.st \in {"returned", "raised"}
    /\ results' = <<fix_result>>
    /\ successful_results' = IF fix_result.success THEN <<fix_result>> ELSE <<>>
    /\ all_messages' = IF fix_result.success THEN all_messages \o fix_result.messages
                       ELSE all_messages
    /\ pc' = "validate"
    /\ UNCHANGED <<max_iterations, iteration, tests_can_execute, all_iterations,
                   validation_result, supervisor_result, status, task_result, timed_out,
                   fix, fix_result, agent_state, dispatched, calls, ret>>
    /\ UNCHANGED valVars
    /\ UNCHANGED <<finished, appended>>
    /\ UNCHANGED dbVars
    /\ UNCHANGED report_state

\* the artifact roots and tool outcomes the validator meets during a session
AllThere == [t \in Types |-> [dir |-> TRUE, nfiles |-> 1]]
NoneThere == [t \in Types |-> [dir |-> FALSE, nfiles |-> 0]]
SameRun(run) == [t \in Types |-> run]
SessionInputs ==
    { \* every test passes
      [fs |-> AllThere, runs |-> SameRun(Completed(<< <<"2", "passed">> >>, <<>>, 0)),
       all |-> Completed(<< <<"2", "passed">> >>, <<>>, 0)],
      \* a test fails
      [fs |-> AllThere, runs |-> SameRun(Completed(<< <<"1", "failed,", "1", "passed">> >>, <<>>, 1)),
       all |-> Completed(<< <<"1", "failed,", "1", "passed">> >>, <<>>, 1)],
      \* collection is interrupted by a missing module
      [fs |-> AllThere, runs |-> SameRun(Completed(<< <<"1", "error">> >>, <<>>, 1)),
       all |-> Completed(<< <<"E", "ModuleNotFoundError:pkg_a">>, <<"1", "error">> >>, <<>>, 1)],
      \* the tool times out
      [fs |-> AllThere, runs |-> SameRun(TimeoutExpired), all |-> TimeoutExpired],
      \* nothing was written
      [fs |-> NoneThere, runs |-> SameRun(TimeoutExpired), all |-> TimeoutExpired] }

\* a flag set by any decision of the validator
CanExecute_Any(decision) == decision # None

\* a loop that takes the model's own word for the terminate target
CanExecute_Finish(decision) == decision = "FINISH"

\* lines 253-260
CanExecute(decision) == decision = "__end__"

\* a record numbered before the increment of line 116
Record_ZeroBased(it, rs, validation, can_execute) ==
    [iteration |-> it - 1, results |-> rs, validation |-> validation,
     tests_executable |-> can_execute]

\* lines 274-279
Record(it, rs, validation, can_execute) ==
    [iteration |-> it, results |-> rs, validation |-> validation,
     tests_executable |-> can_execute]

\* a history that keeps the latest record only
AppendRecord_KeepLast(iterations, rec) == <<rec>>

\* line 274
AppendRecord(iterations, rec) == Append(iterations, rec)

\* line 236
ShouldValidate(successful) == successful # <<>>

\* lines 233-279 when some worker succeeded: the validator runs, its message
\* is merged, the flag is set, the record is appended
Validate ==
    /\ pc = "validate"
    /\ ShouldValidate(successful_results)
    /\ \E in \in SessionInputs, answer \in ValidatorAnswers :
         LET v == verify_tests(in.fs, in.runs, in.all)
             cmd == process(v, answer)
             val == Command(cmd.goto, <<Msg("validator", cmd.kind, iteration)>>)
             \* lines 241-242: the dict process was handed, as process leaves it
             validation_state == StoreDetails(StateDict(all_messages), v)
         IN /\ verification' = ReadDetails(validation_state)[1]
            /\ fs' = in.fs
            /\ command' = cmd
            /\ validation_result' = val
            /\ all_messages' = all_messages \o val.messages
            /\ tests_can_execute' = CanExecute(val.goto)
            /\ all_iterations' = AppendRecord(all_iterations,
                  Record(iteration, results, val, tests_can_execute'))
            /\ calls' = [calls EXCEPT !.validator = @ + 1,
                                      !.verify = @ + 2,
                                      !.llm = @ + (IF cmd.llm THEN 1 ELSE 0)]
    /\ pc' = "loop"
    /\ UNCHANGED <<max_iterations, iteration, results, successful_results,
                   supervisor_result, status, task_result, timed_out, fix, fix_result,
                   agent_state, dispatched, ret>>
    /\ UNCHANGED <<vpc, vk, invoked, outcomes>>
    /\ finished' = <<>>
    /\ UNCHANGED appended
    /\ UNCHANGED dbVars
    /\ UNCHANGED report_state

\* lines 233-279 when no worker succeeded: no validation, the record is appended
NoValidate ==
    /\ pc = "validate"
    /\ ~ShouldValidate(successful_results)
    /\ validation_result' = NoCommand
    /\ all_iterations' = AppendRecord(all_iterations,
          Record(iteration, results, NoCommand, tests_can_execute))
    /\ pc' = "loop"
    /\ UNCHANGED <<max_iterations, iteration, tests_can_execute, all_messages,
                   results, successful_results, supervisor_result, status, task_result,
                   timed_out, fix, fix_result, agent_state, dispatched, calls, ret>>
    /\ UNCHANGED valVars
    /\ finished' = <<>>
    /\ UNCHANGED appended
    /\ UNCHANGED dbVars
    /\ UNCHANGED report_state

\* a state made of the latest message only
ReportState_LastOnly(msgs) == StateDict(<<msgs[Len(msgs)]>>)

\* line 288
ReportState(msgs) == StateDict(msgs)

\* a report phase that files itself as one more iteration
Report_AsIteration ==
    /\ pc = "report"
    /\ report_state' = ReportState(all_messages)
    /\ all_messages' = Append(all_messages, Msg("report_agent", "report", iteration))
    /\ iteration' = iteration + 1
    /\ all_iterations' = AppendRecord(all_iterations,
          Record(iteration', <<>>, NoCommand, tests_can_execute))
    /\ ret' = [iterations |-> all_iterations', total_iterations |-> iteration',
               tests_executable |-> tests_can_execute, validation |-> validation_result,
               returned |-> TRUE]
    /\ calls' = [calls EXCEPT !.report = @ + 1]
    /\ pc' = "returned"
    /\ UNCHANGED <<max_iterations, tests_can_execute,
                   results, successful_results, validation_result, supervisor_result,
                   status, task_result, timed_out, fix, fix_result, agent_state,
                   dispatched>>
    /\ UNCHANGED valVars
    /\ UNCHANGED <<finished, appended>>
    /\ UNCHANGED dbVars

\* lines 288-301
Report ==
    /\ pc = "report"
    /\ report_state' = ReportState(all_messages)
    /\ all_messages' = Append(all_messages, Msg("report_agent", "report", iteration))
    /\ ret' = [iterations |-> all_iterations, total_iterations |-> iteration,
               tests_executable |-> tests_can_execute, validation |-> validation_result,
               returned |-> TRUE]
    /\ calls' = [calls EXCEPT !.report = @ + 1]
    /\ pc' = "returned"
    /\ UNCHANGED <<max_iterations, iteration, tests_can_execute, all_iterations,
                   results, successful_results, validation_result, supervisor_result,
                   status, task_result, timed_out, fix, fix_result, agent_state,
                   dispatched>>
    /\ UNCHANGED valVars
    /\ UNCHANGED <<finished, appended>>
    /\ UNCHANGED dbVars

\* a raise that is filed as a record of the iteration
CollaboratorRaises_Recorded ==
    /\ \/ pc = "triage"
       \/ pc = "fix" /\ HasFeedback(all_iterations)
       \/ pc = "validate" /\ ShouldValidate(successful_results)
       \/ pc = "report"
    /\ pc' = "raised"
    /\ all_iterations' = AppendRecord(all_iterations,
          Record(iteration, results, NoCommand, tests_can_execute))
    /\ UNCHANGED <<max_iterations, iteration, tests_can_execute, all_messages,
                   results, successful_results, validation_result,
                   supervisor_result, status, task_result, timed_out, fix, fix_result,
                   agent_state, dispatched, calls, ret>>
    /\ UNCHANGED valVars
    /\ UNCHANGED <<finished, appended>>
    /\ UNCHANGED dbVars
    /\ UNCHANGED report_state

\* lines 127, 199, 242 and 289: a call that is not wrapped in try raises, and
\* so does run_parallel
CollaboratorRaises ==
    /\ \/ pc = "triage"
       \/ pc = "fix" /\ HasFeedback(all_iterations)
       \/ pc = "validate" /\ ShouldValidate(successful_results)
       \/ pc = "report"
    /\ pc' = "raised"
    /\ UNCHANGED <<max_iterations, iteration, tests_can_execute, all_messages,
                   all_iterations, results, successful_results, validation_result,
                   supervisor_result, status, task_result, timed_out, fix, fix_result,
                   agent_state, dispatched, calls, ret>>
    /\ UNCHANGED valVars
    /\ UNCHANGED <<finished, appended>>
    /\ UNCHANGED dbVars
    /\ UNCHANGED report_state

\* lines 103-113: the locals of run_parallel before the loop
Locals ==
    /\ iteration = 0
    /\ tests_can_execute = FALSE
    /\ all_messages = <<UserMsg>>
    /\ all_iterations = <<>>
    /\ results = <<>>
    /\ successful_results = <<>>
    /\ validation_result = NoCommand
    /\ supervisor_result = NoCommand
    /\ status = [a \in Agents |-> "none"]
    /\ task_result = [a \in Agents |-> NoResult]
    /\ timed_out = FALSE
    /\ fix = NoFix
    /\ fix_result = NoResult
    /\ agent_state = [a \in Agents |-> <<>>]
    /\ dispatched = <<>>
    /\ calls = [supervisor |-> 0, validator |-> 0, verify |-> 0, llm |-> 0, report |-> 0]
    /\ ret = NoRet
    /\ finished = <<>>
    /\ appended = [a \in Agents |-> 0]
    /\ report_state = StateDict(<<>>)
    /\ db = NewDatabase
    /\ client = NoCall
    /\ issued = NoIds

NoDecision == [goto |-> None, kind |-> None, actions |-> <<>>, llm |-> FALSE,
               names |-> <<>>]

\* a session is started, for every max_iterations >= 1 up to the bound
Init ==
    /\ pc = "loop"
    /\ max_iterations \in 1..MaxIterBound
    /\ Locals
    /\ verification = NewVerification
    /\ fs = NoneThere
    /\ vpc = "off"
    /\ vk = 0
    /\ invoked = <<>>
    /\ command = NoDecision
    /\ outcomes = <<>>

Next ==
    \/ LoopEnter
    \/ LoopExit
    \/ Triage
    \/ \E a \in Agents : WorkerReturns(a)
    \/ \E a \in Agents : WorkerRaises(a)
    \/ BatchCompletes
    \/ BatchTimeout
    \/ \E a \in Agents : AbandonedEnds(a)
    \/ FixSkip
    \/ FixRoute
    \/ FixWorkerReturns
    \/ FixWorkerRaises
    \/ FixCollect
    \/ Validate
    \/ NoValidate
    \/ Report
    \/ CollaboratorRaises

Spec == Init /\ [][Next]_vars

\* the steps the event loop takes by itself: run_parallel between its awaits,
\* the timer of wait_for, and the synchronous calls of the supervisor, the
\* validator and the report agent (bounded by the timeouts of their requests
\* and tool runs). agent.process of a worker runs generated code and gives
\* no such bound.
EventLoop ==
    \/ LoopEnter \/ LoopExit \/ Triage \/ BatchCompletes \/ BatchTimeout
    \/ FixSkip \/ FixRoute \/ FixCollect \/ Validate \/ NoValidate
    \/ Report \/ CollaboratorRaises

\* the session under the fairness of the event loop
LiveSpec == Spec /\ WF_vars(EventLoop)

\* the dispatch phase of iteration 1 (lines 115-181), with workers that write
\* to the message list of their state
CopyInit == Init /\ max_iterations = 1

CopyNext ==
    \/ LoopEnter
    \/ Triage
    \/ \E a \in Agents : WorkerAppends(a)
    \/ \E a \in Agents : WorkerReturns(a)
    \/ \E a \in Agents : WorkerRaises(a)
    \/ BatchCompletes
    \/ BatchTimeout
    \/ \E a \in Agents : AbandonedEnds(a)

CopySpec == CopyInit /\ [][CopyNext]_vars

(***************************************************************************)
(* One call of ValidatorAgent.process, step by step                        *)
(***************************************************************************)
\* the outcomes of the tool on one category directory
TypeRuns ==
    { Completed(<< <<"2", "passed">> >>, <<>>, 0),
      Completed(<< <<"1", "failed,", "1", "passed">> >>, <<>>, 1),
      TimeoutExpired }

\* the outcomes of the tool on the artifact root
AllRuns == {Completed(out, <<>>, rc) : out \in Outputs, rc \in {0, 1}} \cup RunErrors

\* lines 183-219
VDiscover ==
    /\ vpc = "discover"
    /\ LET v == Discover(NewVerification, fs, 1)
       IN IF v.files_found = <<>>
          THEN verification' = NoFilesReport(v) /\ vpc' = "route" /\ vk' = vk
          ELSE verification' = v /\ vpc' = "types" /\ vk' = 1
    /\ calls' = [calls EXCEPT !.verify = @ + 1]
    /\ UNCHANGED <<fs, invoked, command, outcomes>>
    /\ UNCHANGED runVars
    /\ UNCHANGED dbVars

\* lines 222-225: a category without artifacts is passed over
VSkipType ==
    /\ vpc = "types"
    /\ vk <= Len(TypeOrder)
    /\ ~verification.by_type[TypeOrder[vk]].exists
    /\ vk' = vk + 1
    /\ UNCHANGED <<verification, fs, vpc, invoked, command, outcomes, calls>>
    /\ UNCHANGED runVars
    /\ UNCHANGED dbVars

\* a loop that gives up at the first category whose run raised
VRunType_AbortOnError ==
    /\ vpc = "types"
    /\ vk <= Len(TypeOrder)
    /\ verification.by_type[TypeOrder[vk]].exists
    /\ \E run \in TypeRuns :
         /\ verification' = RunType(verification, TypeOrder[vk], run)
         /\ outcomes' = Append(outcomes, run.kind)
         /\ vpc' = IF run.kind = "ok" THEN vpc ELSE "route"
    /\ invoked' = Append(invoked, TypeOrder[vk])
    /\ vk' = vk + 1
    /\ UNCHANGED <<fs, command, calls>>
    /\ UNCHANGED runVars
    /\ UNCHANGED dbVars

\* lines 227-261: the tool runs on the directory of the category
VRunType ==
    /\ vpc = "types"
    /\ vk <= Len(TypeOrder)
    /\ verification.by_type[TypeOrder[vk]].exists
    /\ \E run \in TypeRuns :
         /\ verification' = RunType(verification, TypeOrder[vk], run)
         /\ outcomes' = Append(outcomes, run.kind)
    /\ invoked' = Append(invoked, TypeOrder[vk])
    /\ vk' = vk + 1
    /\ UNCHANGED <<fs, vpc, command, calls>>
    /\ UNCHANGED runVars
    /\ UNCHANGED dbVars

\* lines 264-311: the tool runs on the artifact root
VRunAll ==
    /\ vpc = "types"
    /\ vk > Len(TypeOrder)
    /\ \E run \in AllRuns :
         /\ verification' = RunAll(verification, run)
         /\ outcomes' = Append(outcomes, run.kind)
    /\ invoked' = Append(invoked, "root")
    /\ vpc' = "route"
    /\ UNCHANGED <<fs, vk, command, calls>>
    /\ UNCHANGED runVars
    /\ UNCHANGED dbVars

\* lines 405-452
VRoute ==
    /\ vpc = "route"
    /\ \E answer \in ValidatorAnswers :
         /\ command' = process(verification, answer)
         /\ calls' = [calls EXCEPT !.validator = @ + 1,
                                   !.llm = @ + (IF command'.llm THEN 1 ELSE 0)]
    /\ vpc' = "done"
    /\ UNCHANGED <<verification, fs, vk, invoked, outcomes>>
    /\ UNCHANGED runVars
    /\ UNCHANGED dbVars

\* line 434: the decision capability raises, and so does process
VLlmRaises ==
    /\ vpc = "route"
    /\ ~BlockingRoute(verification)
    /\ calls' = [calls EXCEPT !.llm = @ + 1]
    /\ vpc' = "raised"
    /\ UNCHANGED <<verification, fs, vk, invoked, command, outcomes>>
    /\ UNCHANGED runVars
    /\ UNCHANGED dbVars

\* process is called on any artifact root
ValInit ==
    /\ pc = "off"
    /\ max_iterations = 1
    /\ Locals
    /\ verification = NewVerification
    /\ fs \in FileSystems
    /\ vpc = "discover"
    /\ vk = 0
    /\ invoked = <<>>
    /\ command = NoDecision
    /\ outcomes = <<>>

ValNext ==
    \/ VDiscover
    \/ VSkipType
    \/ VRunType
    \/ VRunAll
    \/ VRoute
    \/ VLlmRaises

ValSpec == ValInit /\ [][ValNext]_vars

(***************************************************************************)
(* verify_tests on the summary lines of the tool                           *)
(***************************************************************************)
\* summary lines of pytest: counts of passed, failed, xfailed and xpassed
\* tests, and lines without a count
SummaryLines ==
    { <<"2", "passed">>,
      <<"1", "failed,", "2", "passed">>,
      <<"2", "passed,", "1", "xfailed">>,
      <<"1", "passed,", "2", "xpassed">>,
      <<"x", "passed">>,
      <<"failed">>,
      <<"collected", "2", "items">> }

\* every sequence of at most MaxLines summary lines
SummaryOutputs == UNION {[1..n -> SummaryLines] : n \in 0..MaxLines}

\* the outcomes of the tool: it prints and exits, or it times out
SummaryRuns ==
    {Completed(out, <<>>, rc) : out \in SummaryOutputs, rc \in {0, 1}}
        \cup {TimeoutExpired}

\* lines 227-261 on these outcomes
ParseRunType ==
    /\ vpc = "types"
    /\ vk <= Len(TypeOrder)
    /\ verification.by_type[TypeOrder[vk]].exists
    /\ \E run \in SummaryRuns :
         /\ verification' = RunType(verification, TypeOrder[vk], run)
         /\ outcomes' = Append(outcomes, run.kind)
    /\ invoked' = Append(invoked, TypeOrder[vk])
    /\ vk' = vk + 1
    /\ UNCHANGED <<fs, vpc, command, calls>>
    /\ UNCHANGED runVars
    /\ UNCHANGED dbVars

\* lines 264-311 on these outcomes
ParseRunAll ==
    /\ vpc = "types"
    /\ vk > Len(TypeOrder)
    /\ \E run \in SummaryRuns :
         /\ verification' = RunAll(verification, run)
         /\ outcomes' = Append(outcomes, run.kind)
    /\ invoked' = Append(invoked, "root")
    /\ vpc' = "route"
    /\ UNCHANGED <<fs, vk, command, calls>>
    /\ UNCHANGED runVars
    /\ UNCHANGED dbVars

\* verify_tests is called on an artifact root with unit tests, or with none
ParseInit ==
    /\ pc = "off"
    /\ max_iterations = 1
    /\ Locals
    /\ verification = NewVerification
    /\ fs \in {f \in FileSystems : f["functional"] = NoneThere["functional"]
                                   /\ f["integration"] = NoneThere["integration"]}
    /\ vpc = "discover"
    /\ vk = 0
    /\ invoked = <<>>
    /\ command = NoDecision
    /\ outcomes = <<>>

ParseNext ==
    \/ VDiscover
    \/ VSkipType
    \/ ParseRunType
    \/ ParseRunAll

ParseSpec == ParseInit /\ [][ParseNext]_vars

(***************************************************************************)
(* A caller of sample_project.database.Database                            *)
(***************************************************************************)
\* the variables of the testing workflow
flowVars == <<runVars, valVars, calls>>

\* the titles and usernames the caller passes
Titles == {"title"}
Usernames == {"ann", "bob"}
\* an item of the caller's own
OwnTask == Task(0, "own")

\* the stored list, which is the caller's list when that one is shared
Stored(d, tasks, shared) == IF shared THEN [d EXCEPT !.tasks = tasks] ELSE d

\* db.add_task(title, description)
AddTask ==
    /\ db.next_task_id <= MaxIds
    /\ \E title \in Titles :
         LET d == add_task(db, title)
             task == d.tasks[Len(d.tasks)]
         IN /\ db' = d
            /\ client' = [client EXCEPT !.op = "add_task", !.value = TRUE, !.id = task.id,
                                        !.list = IF client.shared THEN d.tasks ELSE @]
            /\ issued' = [issued EXCEPT !.tasks = Append(@, task.id)]
    /\ UNCHANGED flowVars

\* db.delete_task(task_id)
DeleteTask ==
    /\ \E task_id \in 1..MaxIds :
         LET r == delete_task(db, task_id)
         IN /\ db' = r.db
            /\ client' = [client EXCEPT !.op = "delete_task", !.value = r.value,
                                        !.id = task_id,
                                        !.list = IF client.shared THEN r.db.tasks ELSE @]
            /\ issued' = [issued EXCEPT !.deleted =
                             IF r.value THEN @ \cup {task_id} ELSE @]
    /\ UNCHANGED flowVars

\* db.add_user(username, email)
AddUser ==
    /\ db.next_user_id <= MaxIds
    /\ \E username \in Usernames :
         LET d == add_user(db, username)
             user == d.users[Len(d.users)]
         IN /\ db' = d
            /\ client' = [client EXCEPT !.op = "add_user", !.value = TRUE, !.id = user.id]
            /\ issued' = [issued EXCEPT !.users = Append(@, user.id)]
    /\ UNCHANGED flowVars

\* db.get_all_tasks()
GetAllTasks ==
    /\ LET r == get_all_tasks(db)
       IN client' = [client EXCEPT !.op = "get_all_tasks", !.value = TRUE, !.id = 0,
                                   !.list = r.list, !.shared = r.shared]
    /\ UNCHANGED <<db, issued>>
    /\ UNCHANGED flowVars

\* the caller appends an item to the list it was returned
ListAppend ==
    /\ client.op \in {"get_all_tasks", "list.append", "list.remove", "list.clear"}
    /\ \A i \in 1..Len(client.list) : client.list[i] # OwnTask
    /\ client' = [client EXCEPT !.op = "list.append", !.list = Append(@, OwnTask)]
    /\ db' = Stored(db, client'.list, client.shared)
    /\ UNCHANGED issued
    /\ UNCHANGED flowVars

\* the caller removes an item from the list it was returned
ListRemove ==
    /\ client.op \in {"get_all_tasks", "list.append", "list.remove", "list.clear"}
    /\ \E i \in 1..Len(client.list) :
         client' = [client EXCEPT !.op = "list.remove",
                       !.list = SubSeq(@, 1, i - 1) \o SubSeq(@, i + 1, Len(@))]
    /\ db' = Stored(db, client'.list, client.shared)
    /\ UNCHANGED issued
    /\ UNCHANGED flowVars

\* the caller clears the list it was returned
ListClear ==
    /\ client.op \in {"get_all_tasks", "list.append", "list.remove", "list.clear"}
    /\ client.list # <<>>
    /\ client' = [client EXCEPT !.op = "list.clear", !.list = <<>>]
    /\ db' = Stored(db, client'.list, client.shared)
    /\ UNCHANGED issued
    /\ UNCHANGED flowVars

\* a Database is created; the workflow is not running
DbInit ==
    /\ pc = "off"
    /\ max_iterations = 1
    /\ Locals
    /\ verification = NewVerification
    /\ fs = NoneThere
    /\ vpc = "off"
    /\ vk = 0
    /\ invoked = <<>>
    /\ command = NoDecision
    /\ outcomes = <<>>

DbNext ==
    \/ AddTask
    \/ DeleteTask
    \/ AddUser
    \/ GetAllTasks
    \/ ListAppend
    \/ ListRemove
    \/ ListClear

DbSpec == DbInit /\ [][DbNext]_vars

(***************************************************************************)
(* A caller of TaskService, UserService and TodoAPI                        *)
(***************************************************************************)
\* the titles passed: none, blanks, a title, a padded title, a title padded to
\* 100 characters, one padded to 101, and one of 101 characters
TitleInputs ==
    {NoStr, Str("   ", "", 3), Str("task", "task", 4), Str(" task ", "task", 6),
     Str("task +96", "task", MaxTitleLen), Str("task +97", "task", MaxTitleLen + 1),
     Str("t101", "t101", MaxTitleLen + 1)}

\* the usernames passed: none, blanks, one of two characters, two of three
UsernameInputs ==
    {NoStr, Str("   ", "", MinUsernameLen), Str("ab", "ab", MinUsernameLen - 1),
     Str("ann", "ann", MinUsernameLen), Str("bob", "bob", MinUsernameLen)}

\* the emails passed, character by character
Emails ==
    {<<"a", "@", "b", ".", "c">>, <<"a", "b">>,
     <<"a", ".", "b", "@", "c">>, <<"a", "@", "b", "@", "c", ".", "d">>}

\* the request bodies passed to TodoAPI.create_task
Bodies ==
    {<<>>, <<Str("   ", "", 3)>>, <<Str(" task ", "task", 6)>>,
     <<Str("t101", "t101", MaxTitleLen + 1)>>}

\* task_service.create_task(title, description)
CreateTask ==
    /\ \E title \in TitleInputs :
         LET r == create_task(db, title)
         IN /\ r.error = None => db.next_task_id <= MaxIds
            /\ db' = r.db
            /\ client' = [client EXCEPT !.op = "create_task", !.value = r.error = None,
                                        !.id = r.id, !.arg = title, !.error = r.error]
            /\ issued' = [issued EXCEPT !.tasks =
                             IF r.db.next_task_id # db.next_task_id
                             THEN Append(@, db.next_task_id) ELSE @]
    /\ UNCHANGED flowVars

\* api.create_task(data)
ApiCreateTask ==
    /\ \E data \in Bodies :
         LET r == api_create_task(db, data)
         IN /\ r.success => db.next_task_id <= MaxIds
            /\ db' = r.db
            /\ client' = [client EXCEPT !.op = "api.create_task", !.value = r.success,
                                        !.id = r.id, !.error = r.error,
                                        !.arg = IF data = <<>> THEN NoStr ELSE data[1]]
            /\ issued' = [issued EXCEPT !.tasks =
                             IF r.db.next_task_id # db.next_task_id
                             THEN Append(@, db.next_task_id) ELSE @]
    /\ UNCHANGED flowVars

\* task_service.complete_task(task_id)
CompleteTask ==
    /\ \E task_id \in 1..MaxIds :
         LET r == complete_task(db, task_id)
         IN /\ db' = r.db
            /\ client' = [client EXCEPT !.op = "complete_task", !.value = r.value,
                                        !.id = task_id, !.arg = NoStr, !.error = None]
            /\ issued' = [issued EXCEPT !.completed =
                             IF r.value THEN @ \cup {task_id} ELSE @]
    /\ UNCHANGED flowVars

\* task_service.delete_task(task_id), lines 42-44: the call is handed to the
\* database
ServiceDeleteTask ==
    /\ \E task_id \in 1..MaxIds :
         LET r == delete_task(db, task_id)
         IN /\ db' = r.db
            /\ client' = [client EXCEPT !.op = "delete_task", !.value = r.value,
                                        !.id = task_id, !.arg = NoStr, !.error = None]
            /\ issued' = [issued EXCEPT !.deleted =
                             IF r.value THEN @ \cup {task_id} ELSE @]
    /\ UNCHANGED flowVars

\* user_service.register_user(username, email)
RegisterUser ==
    /\ \E username \in UsernameInputs, email \in Emails :
         LET r == register_user(db, username, email)
         IN /\ db' = r.db
            /\ client' = [client EXCEPT !.op = "register_user", !.value = r.error = None,
                                        !.id = r.id, !.arg = username, !.error = r.error]
            /\ issued' = [issued EXCEPT !.users =
                             IF r.db.next_user_id # db.next_user_id
                             THEN Append(@, db.next_user_id) ELSE @]
    /\ UNCHANGED flowVars

ServiceNext ==
    \/ CreateTask
    \/ ApiCreateTask
    \/ CompleteTask
    \/ ServiceDeleteTask
    \/ RegisterUser

\* the services and the API share a new Database; the workflow is not running
ServiceSpec == DbInit /\ [][ServiceNext]_vars

(***************************************************************************)
(* Properties                                                              *)
(***************************************************************************)
\* the iteration-1 batch has ended, and the list it left
BatchEnded == Len(all_iterations) >= 1 \/ (iteration = 1 /\ pc = "validate")
BatchList == IF Len(all_iterations) >= 1 THEN all_iterations[1].results ELSE results

Finished == pc \in {"returned", "raised"}

\* C1 (as claimed): for every max_iterations >= 1 the loop makes at most
\* max_iterations passes (no more dispatch phases, validations or records
\* than that) and run_parallel then ends, whatever the workers do.
C1_Bounded ==
    /\ iteration <= max_iterations
    /\ Len(dispatched) <= max_iterations
    /\ calls.validator <= max_iterations
    /\ Len(all_iterations) <= max_iterations
    /\ ret.returned => ret.total_iterations <= max_iterations
C1_Termination == []C1_Bounded /\ <>Finished

\* C2: a worker of the iteration-1 batch whose process raises yields a result
\* with success = false and no message, and its raising leaves the tasks and
\* results of its siblings as they were; when gather() returns, the result
\* list holds one result per agent, the failed one for an agent that raised
\* and the successful one for an agent that returned, whatever the order in
\* which the three ended.
C2_ResultList ==
    /\ \A a \in Agents : status[a] = "raised" => task_result[a] = FailureResult(a, 1)
    /\ (BatchEnded /\ ~timed_out) =>
          /\ Len(BatchList) = Cardinality(Agents)
          /\ \A a \in Agents :
               /\ status[a] = "raised" =>
                    \E i \in 1..Len(BatchList) : BatchList[i] = FailureResult(a, 1)
               /\ status[a] = "returned" =>
                    \E i \in 1..Len(BatchList) : BatchList[i] = SuccessResult(a, 1)
C2_SiblingsUntouched ==
    \A a \in Agents :
        (status[a] = "running" /\ status'[a] = "raised") =>
            \A b \in Agents \ {a} :
                status'[b] = status[b] /\ task_result'[b] = task_result[b]
C3_PartialResults ==
    (BatchEnded /\ timed_out) =>
        \A a \in Agents :
            status[a] \in {"returned", "raised"} =>
                \E i \in 1..Len(BatchList) : BatchList[i] = task_result[a]

\* C4: when the verification shows import errors and no collected test,
\* process returns the target supervisor and the decision capability has
\* not been invoked (so process cannot raise through it either).
C4_BlockingRouteNoLlm ==
    ( /\ vpc \in {"done", "raised"}
      /\ verification.import_analysis.has_import_errors
      /\ verification.tests_total = 0 )
    => /\ vpc = "done"
       /\ command.goto = "supervisor"
       /\ ~command.llm
       /\ calls.llm = 0
C4_Witness ==
    /\ vpc = "done"
    /\ verification.import_analysis.has_import_errors
    /\ verification.import_analysis.missing_modules = {}
    /\ verification.tests_total = 0
    /\ command.goto = "supervisor"

\* C5: in every report verify_tests returns, total = passed + failed for each
\* category and tests_total = tests_passed + tests_failed for the aggregate.
C5_CountInvariant ==
    vpc \in {"route", "done", "raised"} =>
        /\ \A t \in Types :
             verification.by_type[t].total =
                 verification.by_type[t].passed + verification.by_type[t].failed
        /\ verification.tests_total =
               verification.tests_passed + verification.tests_failed
\* a category run timed out, another counted tests, the aggregate run failed
C5_Witness ==
    /\ vpc = "route"
    /\ verification.tests_failed = 1 /\ verification.tests_total = 2
    /\ verification.by_type["unit"].total = 2
    /\ verification.by_type["unit"].failed = 1
    /\ \E i \in 1..Len(verification.errors) :
         verification.errors[i] = "functional tests error"

\* C6: after N passes the history holds N records numbered 1..N in order,
\* and the returned total_iterations is N = len(iterations).
C6_HistoryCount ==
    /\ pc \in {"loop", "report", "returned"} => Len(all_iterations) = iteration
    /\ \A i \in 1..Len(all_iterations) : all_iterations[i].iteration = i
    /\ ret.returned =>
         /\ ret.total_iterations = Len(ret.iterations)
         /\ ret.total_iterations = iteration
         /\ \A i \in 1..Len(ret.iterations) : ret.iterations[i].iteration = i
C6_Witness ==
    /\ ret.returned
    /\ ret.total_iterations >= 2
    /\ Len(ret.iterations) = ret.total_iterations

\* C7: a record of the history is never removed, moved or changed by a later
\* step, and the history that is returned is the one the loop built.
C7_RecordsKept ==
    /\ Len(all_iterations') >= Len(all_iterations)
    /\ \A i \in 1..Len(all_iterations) : all_iterations'[i] = all_iterations[i]
    /\ ret'.returned => ret'.iterations = all_iterations
C7_AppendOnly == [][C7_RecordsKept]_vars
\* records were appended, later iterations and the report ran after them
C7_Witness ==
    /\ pc = "returned"
    /\ Len(all_iterations) >= 2
    /\ all_iterations[1].validation # NoCommand

\* C8: iteration 1 starts the three agents whatever agent the supervisor's
\* triage names, and the state of each is the request followed by the
\* supervisor's triage message.
C8_FullInitialDispatch ==
    (iteration >= 1 /\ calls.supervisor >= 1) =>
        /\ dispatched[1] = Agents
        /\ iteration = 1 =>
             /\ supervisor_result.goto \in Agents
             /\ \A a \in Agents :
                  agent_state[a] =
                      <<UserMsg, Msg("supervisor", supervisor_result.goto, 1)>>
C8_Witness ==
    /\ iteration = 1 /\ pc = "gather"
    /\ supervisor_result.goto = "integration_tester"
    /\ \A a \in Agents : status[a] = "running"

\* C9 (as claimed): every completed iteration k >= 2 started exactly one
\* worker.
C9_OneWorkerPerFix ==
    \A k \in 2..Len(all_iterations) : Cardinality(dispatched[k]) = 1

\* C10: when the validation phase of an iteration starts, every task started
\* in that iteration has returned its result or has been abandoned by the
\* batch timeout; none is still awaited.
C10_Barrier ==
    pc = "validate" =>
        /\ \A a \in Agents : status[a] # "running"
        /\ fix.st # "running"
        /\ \A a \in dispatched[iteration] :
             IF iteration = 1
             THEN status[a] \in {"returned", "raised", "abandoned", "discarded"}
             ELSE fix.agent = a /\ fix.st \in {"returned", "raised"}
C10_Witness ==
    /\ pc = "validate"
    /\ iteration = 2
    /\ dispatched[2] = {"unit_tester"}
    /\ fix.st = "returned"
    /\ successful_results # <<>>

\* the validator of the latest recorded iteration decided to terminate
EndDecided ==
    /\ Len(all_iterations) >= 1
    /\ all_iterations[Len(all_iterations)].validation.goto = "__end__"

\* C11: once the validator of iteration k has decided __end__, the loop is
\* over: that record is the last one, the flag is set, no supervisor call,
\* dispatch, validation or further pass follows, and what run_parallel
\* returns has tests_executable = true and total_iterations = k.
C11_Stopped ==
    \A k \in 1..Len(all_iterations) :
        all_iterations[k].validation.goto = "__end__" =>
            /\ k = Len(all_iterations)
            /\ iteration = k
            /\ tests_can_execute
            /\ all_iterations[k].tests_executable
            /\ pc \in {"loop", "report", "returned", "raised"}
            /\ ret.returned => (ret.tests_executable /\ ret.total_iterations = k)
C11_NothingFurther ==
    EndDecided =>
        /\ calls'.supervisor = calls.supervisor
        /\ calls'.validator = calls.validator
        /\ calls'.verify = calls.verify
        /\ dispatched' = dispatched
        /\ iteration' = iteration
        /\ all_iterations' = all_iterations
C11_StopsOnEnd == []C11_Stopped /\ [][C11_NothingFurther]_vars
\* the validator terminated the first of two allowed iterations
C11_Witness ==
    /\ ret.returned
    /\ max_iterations = 2
    /\ ret.total_iterations = 1
    /\ ret.tests_executable
    /\ ret.iterations[1].validation.goto = "__end__"

\* C12: when no validator decision was __end__, run_parallel returns after
\* exactly max_iterations passes, with tests_executable = false and a history
\* of exactly max_iterations records.
C12_Exhausted ==
    ( /\ ret.returned
      /\ \A k \in 1..Len(ret.iterations) : ret.iterations[k].validation.goto # "__end__" )
    => /\ ret.total_iterations = max_iterations
       /\ ~ret.tests_executable
       /\ Len(ret.iterations) = max_iterations
C12_Witness ==
    /\ ret.returned
    /\ max_iterations = 2
    /\ ret.total_iterations = 2
    /\ ~ret.tests_executable
    /\ ret.iterations[1].validation.goto = "supervisor"
    /\ ret.iterations[2].validation.goto = "supervisor"

\* C13 (as claimed): the record of every iteration, one without a successful
\* worker included, carries a verification result produced in that iteration.
C13_RecordVerified ==
    \A k \in 1..Len(all_iterations) :
        LET validation == all_iterations[k].validation
        IN /\ validation # NoCommand
           /\ validation.messages # <<>>
           /\ \A i \in 1..Len(validation.messages) : validation.messages[i].it = k

\* C14 (as claimed): the results of the record of iteration k are results of
\* tasks started in iteration k, at most one per task.
C14_OwnResults ==
    \A k \in 1..Len(all_iterations) :
        LET rs == all_iterations[k].results
        IN /\ Len(rs) <= Cardinality(dispatched[k])
           /\ \A i \in 1..Len(rs) :
                /\ \E a \in dispatched[k] : rs[i].agent = AgentName(a)
                /\ \A j \in 1..Len(rs[i].messages) : rs[i].messages[j].it = k
                /\ \A j \in 1..Len(rs) : rs[j].agent = rs[i].agent => j = i

\* C15: while the worker of a fix iteration runs, the state it was given is
\* the whole conversation accumulated so far (which ends with the message of
\* the validator of the previous iteration, whose target was supervisor),
\* then the request that wraps that feedback, then the fix instructions of
\* the supervisor of this iteration.
C15_FixContext ==
    pc = "await_fix" =>
        LET prev_validation == all_iterations[iteration - 1].validation
            feedback == prev_validation.messages[Len(prev_validation.messages)]
        IN /\ prev_validation.goto = "supervisor"
           /\ feedback.name = "validator" /\ feedback.it = iteration - 1
           /\ all_messages[Len(all_messages)] = feedback
           /\ agent_state[fix.agent] =
                 all_messages \o <<FixRequest(feedback)>>
                              \o <<Msg("supervisor", fix.agent, iteration)>>
C15_Witness ==
    /\ pc = "await_fix"
    /\ iteration = 2
    /\ fix.agent = "functional_tester" /\ fix.st = "running"
    /\ all_iterations[1].validation.messages[1].kind = "auto"
    /\ Len(agent_state["functional_tester"]) > Len(all_messages)

\* the kinds of a tool invocation that raised
ErrKinds == {run.kind : run \in RunErrors}
\* verify_tests has returned
Verified == vpc \in {"route", "done", "raised"}
\* the error list has the entry
HasError(msg) == \E i \in 1..Len(verification.errors) : verification.errors[i] = msg
\* the category has artifacts on the artifact root
HasArtifacts(t) == fs[t].dir /\ fs[t].nfiles > 0

\* C16 (as claimed): when an invocation of the tool timed out or did not
\* find the tool, the report has execution_success = false and an entry in
\* errors, and process does not take the blocking route.
C16_AnyFailure ==
    (Verified /\ \E i \in 1..Len(outcomes) : outcomes[i] \in ErrKinds) =>
        /\ ~verification.execution_success
        /\ verification.errors # <<>>
        /\ ~BlockingRoute(verification)
        /\ vpc = "done" => command.kind = "llm"

\* C16 (amended): when the invocation on the artifact root timed out or did
\* not find the tool, the report has execution_success = false and the entry
\* that explains it, and process asks the model instead of taking the
\* blocking route; an invocation on a category that raised leaves the entry
\* of that category in errors.
C16_AggregateFailure ==
    Verified =>
        /\ ( /\ outcomes # <<>>
             /\ invoked[Len(invoked)] = "root"
             /\ outcomes[Len(outcomes)] \in ErrKinds ) =>
               /\ ~verification.execution_success
               /\ verification.errors # <<>>
               /\ verification.errors[Len(verification.errors)] \in
                    {"Test execution timed out",
                     "pytest not found - cannot verify tests",
                     "Error running tests"}
               /\ ~BlockingRoute(verification)
               /\ vpc = "done" => (command.kind = "llm" /\ command.llm)
        /\ \A i \in 1..Len(outcomes) :
             (outcomes[i] \in ErrKinds /\ invoked[i] \in Types) =>
                 HasError(TypeErrorMsg(invoked[i]))
C16_Witness ==
    /\ vpc = "done"
    /\ Len(invoked) = 2 /\ invoked[2] = "root"
    /\ outcomes = <<"ok", "TimeoutExpired">>
    /\ ~verification.execution_success
    /\ command.kind = "llm"

\* C17 (as claimed): a category without artifacts has exists = false and zero
\* counts, and discovery leaves the error list empty whichever categories are
\* absent, all three included.
C17_AbsentNoError ==
    (vpc # "discover" /\ invoked = <<>>) =>
        /\ \A t \in Types : ~HasArtifacts(t) =>
             /\ ~verification.by_type[t].exists
             /\ verification.by_type[t].total = 0
        /\ verification.errors = <<>>

\* C17 (amended): a category without artifacts has exists = false, no file
\* and zero counts, is never run and leaves no entry of its own; the error
\* list is empty after discovery as long as one category has artifacts, and
\* when none has, it holds the single entry "No test files found" and the
\* tool is not invoked.
C17_AbsentIsGap ==
    vpc # "discover" =>
        /\ \A t \in Types : ~HasArtifacts(t) =>
             /\ verification.by_type[t] =
                  [files |-> <<>>, passed |-> 0, failed |-> 0, total |-> 0,
                   exists |-> FALSE]
             /\ ~HasError(TypeErrorMsg(t))
             /\ \A i \in 1..Len(invoked) : invoked[i] # t
        /\ \A t \in Types : HasArtifacts(t) => verification.by_type[t].exists
        /\ IF \A t \in Types : ~HasArtifacts(t)
           THEN /\ verification.errors = <<"No test files found">>
                /\ invoked = <<>>
                /\ vpc # "types"
           ELSE invoked = <<>> => verification.errors = <<>>
\* an empty directory, a missing one, and a category that ran clean
C17_Witness ==
    /\ vpc = "done"
    /\ fs["unit"].dir /\ fs["unit"].nfiles = 0
    /\ ~fs["functional"].dir
    /\ verification.by_type["integration"].total = 2
    /\ ~verification.by_type["unit"].exists
    /\ verification.errors = <<>>

\* the categories among the first n of the fixed order that have artifacts
ExistingTypes(n) ==
    LET pick(k) == IF k <= n /\ verification.by_type[TypeOrder[k]].exists
                   THEN <<TypeOrder[k]>> ELSE <<>>
    IN pick(1) \o pick(2) \o pick(3)

\* C18: when a test file exists, the tool is invoked on the categories that
\* have artifacts, each once and in the order unit, functional, integration,
\* whatever the earlier invocations did, and then once on the artifact root.
C18_InvocationOrder ==
    /\ (vpc = "types" /\ vk >= 1) => invoked = ExistingTypes(vk - 1)
    /\ (Verified /\ verification.files_found # <<>>) =>
          /\ invoked = ExistingTypes(Len(TypeOrder)) \o <<"root">>
          /\ Len(outcomes) = Len(invoked)
C18_Witness ==
    /\ vpc = "route"
    /\ invoked = <<"unit", "integration", "root">>
    /\ outcomes[1] = "TimeoutExpired" /\ outcomes[2] = "ok"
    /\ ~verification.by_type["functional"].exists

\* the messages of the workers that returned, in the order of the arguments
\* of gather()
ReturnedInOrder ==
    LET ok == SelectSeq(AgentOrder, LAMBDA a : status[a] = "returned")
    IN [i \in 1..Len(ok) |-> Msg(ok[i], "tests", 1)]

\* C19: while the batch of iteration 1 is awaited the conversation holds the
\* request only; when the batch has ended it holds the request, the
\* supervisor's triage message and the messages of the workers that
\* returned, in the order unit, functional, integration, whatever the order
\* in which the workers ended (nothing of them when the timeout fired).
C19_MergeOrder ==
    /\ pc \in {"triage", "gather"} => all_messages = <<UserMsg>>
    /\ (pc = "validate" /\ iteration = 1) =>
          all_messages = <<UserMsg>> \o supervisor_result.messages
                            \o (IF timed_out THEN <<>> ELSE ReturnedInOrder)
\* the three returned in the order integration, functional, unit
C19_Witness ==
    /\ pc = "validate" /\ iteration = 1 /\ ~timed_out
    /\ finished = <<"integration_tester", "functional_tester", "unit_tester">>
    /\ \A a \in Agents : status[a] = "returned"
    /\ Len(all_messages) = 5

\* C20 (as claimed): a message a worker of the iteration-1 batch adds to the
\* message list of its state shows in no other worker's state.
C20_OwnCopy ==
    \A b \in Agents :
        \A i \in 1..Len(agent_state[b]) :
            agent_state[b][i].kind = "scratch" => agent_state[b][i].name = b

\* the iterations of the returned history that ran the validator
Validated == {k \in 1..Len(ret.iterations) : ret.iterations[k].validation # NoCommand}
\* the largest element of a non-empty set of numbers
Latest(S) == CHOOSE k \in S : \A j \in S : j <= k

\* C21 (as claimed): when run_parallel returns with the budget exhausted and
\* some iteration ran the validator, the validation returned is the one of
\* the latest such iteration (and so is not None).
C21_LatestValidation ==
    (ret.returned /\ ~ret.tests_executable /\ Validated # {}) =>
        /\ ret.validation # NoCommand
        /\ ret.validation = ret.iterations[Latest(Validated)].validation

\* C22 (as claimed): whenever run_parallel returns, the result carries a
\* validator decision whose message holds a rationale, made by the
\* import-error rule or by the delegated decision.
C22_RationaleReturned ==
    ret.returned =>
        /\ ret.validation.goto \in {"supervisor", "__end__"}
        /\ Len(ret.validation.messages) = 1
        /\ ret.validation.messages[1].name = "validator"
        /\ ret.validation.messages[1].kind \in {"auto", "llm"}

\* C23: run_parallel returns before max_iterations passes only when the
\* validator of the last pass decided __end__, and tests_executable is then
\* true.
C23_NoSilentStop ==
    (ret.returned /\ ret.total_iterations < max_iterations) =>
        /\ ret.tests_executable
        /\ ret.validation.goto = "__end__"
        /\ ret.iterations[ret.total_iterations].validation.goto = "__end__"
        /\ ret.iterations[ret.total_iterations].validation = ret.validation
C23_Witness ==
    /\ ret.returned
    /\ max_iterations = 2 /\ ret.total_iterations = 1
    /\ ret.validation.goto = "__end__"
    /\ ret.validation.messages[1].kind = "llm"

\* C24: the report agent is not called while the loop runs; it is called once
\* the loop is left, with the conversation as the loop left it (the request
\* first, the message of every validation in it), and a session that
\* returns, converged or exhausted, has called it exactly once.
C24_ReportOnce ==
    /\ calls.report <= 1
    /\ pc \in {"loop", "triage", "gather", "fix", "await_fix", "validate", "report"} =>
          (calls.report = 0 /\ report_state.messages = <<>>)
    /\ ret.returned =>
          /\ calls.report = 1
          /\ ~LoopCond(iteration, max_iterations, tests_can_execute)
          /\ report_state.messages = SubSeq(all_messages, 1, Len(all_messages) - 1)
          /\ report_state.messages[1] = UserMsg
          /\ \A k \in 1..Len(ret.iterations) :
               LET validation == ret.iterations[k].validation
               IN validation # NoCommand =>
                    \E i \in 1..Len(report_state.messages) :
                        report_state.messages[i] = validation.messages[1]
C24_ReportInput == (pc = "report" /\ pc' = "returned") => report_state'.messages = all_messages
C24_ReportAfterLoop == []C24_ReportOnce /\ [][C24_ReportInput]_vars
\* an exhausted session of two validated iterations
C24_Witness ==
    /\ ret.returned /\ ~ret.tests_executable
    /\ ret.total_iterations = 2
    /\ Len(report_state.messages) >= 5
    /\ report_state.messages[Len(report_state.messages)] = Msg("validator", "llm", 2)

\* C25: the report phase changes neither the history, nor the iteration
\* count, nor the flag, and what is returned are their values at loop exit.
C25_ReportFrame ==
    pc = "report" =>
        /\ all_iterations' = all_iterations
        /\ iteration' = iteration
        /\ tests_can_execute' = tests_can_execute
        /\ validation_result' = validation_result
        /\ ret'.returned =>
             /\ ret'.iterations = all_iterations
             /\ ret'.total_iterations = iteration
             /\ ret'.tests_executable = tests_can_execute
C25_ReportNoEffect == [][C25_ReportFrame]_vars
C25_Witness ==
    /\ pc = "returned"
    /\ ret.tests_executable
    /\ ret.total_iterations = 2
    /\ Len(ret.iterations) = 2

\* C26 (as claimed): when the analysis captured a missing module name,
\* has_import_errors is true and suggested_fixes is not empty, so the
\* rationale of the blocking route lists at least one repair action.
C26_FixForMissing ==
    (Verified /\ verification.import_analysis.missing_modules # {}) =>
        /\ verification.import_analysis.has_import_errors
        /\ verification.import_analysis.suggested_fixes # <<>>
        /\ (vpc = "done" /\ command.kind = "auto") => command.actions # <<>>

\* the task of the worker that made message m of the current iteration
\* returned
MadeBySuccess(m) ==
    IF iteration = 1 THEN status[m.name] = "returned" /\ ~timed_out
    ELSE fix.agent = m.name /\ fix.st = "returned"

\* C27: a step of an iteration only extends the conversation, leaving the
\* earlier messages in place, and what it adds comes from the supervisor's
\* triage (iteration 1), from a worker of this iteration whose task
\* returned, or from the validator; a worker that raised adds nothing.
C27_Extended ==
    LET n == Len(all_messages)
    IN /\ Len(all_messages') >= n
       /\ SubSeq(all_messages', 1, n) = all_messages
       /\ pc # "report" =>
            \A i \in (n + 1)..Len(all_messages') :
                LET m == all_messages'[i]
                IN /\ m.it = iteration
                   /\ \/ m.name = "supervisor" /\ iteration = 1
                      \/ m.name = "validator" /\ pc = "validate"
                      \/ m.name \in Agents /\ MadeBySuccess(m)
C27_FailureAddsNothing == [][C27_Extended]_vars
\* a batch with a worker that raised and two that returned, merged
C27_Witness ==
    /\ pc = "validate" /\ iteration = 1
    /\ status["functional_tester"] = "raised"
    /\ all_messages = <<UserMsg, supervisor_result.messages[1],
                        Msg("unit_tester", "tests", 1),
                        Msg("integration_tester", "tests", 1)>>

\* the ids of a list of stored items
IdsOf(items) == [i \in 1..Len(items) |-> items[i].id]
Distinct(seq) == \A i, j \in 1..Len(seq) : seq[i] = seq[j] => i = j

\* C28: the task ids handed out are 1, 2, 3, ... in this order, and so are
\* the user ids; the stored tasks have pairwise distinct ids, and so have the
\* stored users; no stored task has an id that delete_task freed.
C28_IdsIncrease ==
    /\ \A i \in 1..Len(issued.tasks) : issued.tasks[i] = i
    /\ \A i \in 1..Len(issued.users) : issued.users[i] = i
    /\ Distinct(IdsOf(db.tasks))
    /\ Distinct(IdsOf(db.users))
    /\ IdsOf(db.users) = issued.users
    /\ \A i \in 1..Len(db.tasks) : db.tasks[i].id \notin issued.deleted
\* a task was added after a deletion
C28_Witness ==
    /\ issued.deleted = {1}
    /\ IdsOf(db.tasks) = <<2, 3>>
    /\ IdsOf(db.users) = <<1, 2>>
    /\ client.op = "add_task" /\ client.id = 3

\* C29: delete_task(id) on a stored id returns True and leaves the stored
\* tasks without that one, the others in their order; on an id that is not
\* stored it returns False and leaves the database as it was.
C29_DeleteStep ==
    client'.op = "delete_task" =>
        IF \E i \in 1..Len(db.tasks) : db.tasks[i].id = client'.id
        THEN /\ client'.value
             /\ db'.tasks = SelectSeq(db.tasks, LAMBDA t : t.id # client'.id)
             /\ Len(db'.tasks) = Len(db.tasks) - 1
             /\ db' = [db EXCEPT !.tasks = db'.tasks]
        ELSE /\ ~client'.value
             /\ db' = db
C29_DeleteTask == [][C29_DeleteStep]_vars
\* the second deletion of an id returned False, with tasks still stored
C29_Witness ==
    /\ client.op = "delete_task" /\ ~client.value
    /\ client.id = 2 /\ client.id \in issued.deleted
    /\ IdsOf(db.tasks) = <<1, 3>>

\* the calls on the list get_all_tasks returned
ListOps == {"list.append", "list.remove", "list.clear"}

\* C30: get_all_tasks returns the stored tasks in their order without
\* changing the database, and an item added to, removed from or cleared
\* out of the returned list leaves the database as it was.
C30_ListStep ==
    /\ client'.op = "get_all_tasks" => (client'.list = db.tasks /\ db' = db)
    /\ client'.op \in ListOps => db' = db
C30_ReturnsCopy == [][C30_ListStep]_vars
\* the returned list was cleared while the database holds two tasks
C30_Witness ==
    /\ client.op = "list.clear"
    /\ client.list = <<>>
    /\ Len(db.tasks) = 2

\* a title that create_task rejects: empty, blank, or longer than 100
TitleRejected(title) == len(title) = 0 \/ strip(title) = "" \/ len(title) > 100
CreateOps == {"create_task", "api.create_task"}

\* C31: a create_task call with an empty, blank or too long title, on the
\* service or on the API, ends with the error text and without success, and
\* leaves the database as it was: no task stored, no task id consumed; a call
\* with any other title stores one task under the next id.
C31_CreateStep ==
    client'.op \in CreateOps =>
        IF TitleRejected(client'.arg)
        THEN /\ ~client'.value
             /\ client'.error \in {"Task title cannot be empty",
                                   "Task title too long (max 100 characters)"}
             /\ db' = db
             /\ issued'.tasks = issued.tasks
        ELSE /\ client'.value /\ client'.error = None
             /\ client'.id = db.next_task_id
             /\ db'.tasks = Append(db.tasks, Task(db.next_task_id, strip(client'.arg)))
             /\ db'.next_task_id = db.next_task_id + 1
C31_RejectedTitle == [][C31_CreateStep]_vars
\* the API turned down a title of 101 characters after one task was stored
C31_Witness ==
    /\ client.op = "api.create_task" /\ ~client.value
    /\ client.error = "Task title too long (max 100 characters)"
    /\ len(client.arg) = 101
    /\ IdsOf(db.tasks) = <<1>> /\ db.next_task_id = 2

\* the usernames of the stored users
UsernamesOf(users) == [i \in 1..Len(users) |-> users[i].username]

\* C32: register_user with a username that is stored raises and leaves the
\* database as it was, and no two stored users share a username.
C32_RegisterStep ==
    (/\ client'.op = "register_user"
     /\ \E i \in 1..Len(db.users) : db.users[i].username = client'.arg.text)
    => /\ ~client'.value
       /\ client'.error = "Username already exists"
       /\ db' = db
C32_UniqueUsernames == [](Distinct(UsernamesOf(db.users))) /\ [][C32_RegisterStep]_vars
\* a second registration of a stored username was turned down
C32_Witness ==
    /\ client.op = "register_user" /\ client.error = "Username already exists"
    /\ client.arg.text = "ann"
    /\ UsernamesOf(db.users) = <<"bob", "ann">>

\* a username that passes the checks of lines 55-63
Registrable(d, username) ==
    /\ len(username) >= 3 /\ strip(username) # ""
    /\ \A i \in 1..Len(d.users) : d.users[i].username # username.text

\* C33: register_user with a valid unused username and an invalid email
\* raises after the user was written: the user is stored under the next id,
\* and its username is taken for later registrations.
C33_EveryInvalidEmail ==
    \A username \in UsernameInputs, email \in Emails :
        (Registrable(db, username) /\ ~validate_email(email)) =>
            LET r == register_user(db, username, email)
            IN /\ r.error = "Invalid email format"
               /\ ~Registrable(r.db, username)
C33_InvalidEmailStep ==
    (client'.op = "register_user" /\ client'.error = "Invalid email format")
    => /\ ~client'.value
       /\ db'.users = Append(db.users, User(db.next_user_id, client'.arg.text))
       /\ db'.next_user_id = db.next_user_id + 1
       /\ db'.tasks = db.tasks
C33_StoredThenRaised == []C33_EveryInvalidEmail /\ [][C33_InvalidEmailStep]_vars
\* the registration of bob raised for its email, after ann was registered
C33_Witness ==
    /\ client.op = "register_user" /\ client.error = "Invalid email format"
    /\ db.users = <<User(1, "ann"), User(2, "bob")>>
    /\ db.next_user_id = 3

\* the position of a stored task
PosOf(tasks, t) == CHOOSE i \in 1..Len(tasks) : tasks[i] = t
InStorageOrder(list, tasks) ==
    \A i, j \in 1..Len(list) : i < j => PosOf(tasks, list[i]) < PosOf(tasks, list[j])
Among(list, t) == \E i \in 1..Len(list) : list[i] = t

\* C34: get_pending_tasks and get_completed_tasks are disjoint, together they
\* are the stored tasks, each in storage order, and a stored task is among the
\* completed ones exactly when complete_task succeeded on its id.
C34_PendingCompleted ==
    LET pending == get_pending_tasks(db)
        completed == get_completed_tasks(db)
    IN /\ \A i \in 1..Len(pending) : ~Among(completed, pending[i])
       /\ Len(pending) + Len(completed) = Len(db.tasks)
       /\ \A i \in 1..Len(db.tasks) :
            Among(pending, db.tasks[i]) \/ Among(completed, db.tasks[i])
       /\ \A i \in 1..Len(pending) : Among(db.tasks, pending[i])
       /\ \A i \in 1..Len(completed) : Among(db.tasks, completed[i])
       /\ InStorageOrder(pending, db.tasks)
       /\ InStorageOrder(completed, db.tasks)
       /\ \A i \in 1..Len(db.tasks) :
            Among(completed, db.tasks[i]) <=> db.tasks[i].id \in issued.completed
\* task 1 was completed and deleted, task 2 is completed, task 3 is pending
C34_Witness ==
    /\ issued.deleted = {1} /\ issued.completed = {1, 2}
    /\ IdsOf(get_completed_tasks(db)) = <<2>>
    /\ IdsOf(get_pending_tasks(db)) = <<3>>

\* C35: when verification does not show both import errors and zero
\* collected tests, a process call that returns has consulted the decision
\* capability exactly once, and its target is __end__ exactly when the answer
\* was FINISH and supervisor otherwise; on every path the target is
\* supervisor or __end__ and the update holds exactly one message, named
\* validator.
C35_Returned ==
    vpc = "done" =>
        /\ command.goto \in {"supervisor", "__end__"}
        /\ command.names = <<"validator">>
        /\ ~BlockingRoute(verification) =>
              (command.llm /\ command.kind = "llm" /\ calls.llm = 1)
C35_AnswerStep ==
    \A answer \in ValidatorAnswers :
        (/\ vpc = "route" /\ vpc' = "done"
         /\ ~BlockingRoute(verification)
         /\ command' = process(verification, answer))
        => /\ command'.goto = "__end__" <=> answer = "FINISH"
           /\ command'.goto = "supervisor" <=> answer # "FINISH"
C35_DecisionRouting == []C35_Returned /\ [][C35_AnswerStep]_vars
\* the capability answered FINISH on a verification with a failed test
C35_Witness ==
    /\ vpc = "done"
    /\ ~BlockingRoute(verification)
    /\ verification.tests_failed > 0
    /\ command.goto = "__end__" /\ calls.llm = 1

\* the literal words of a summary line
PassedWord == {"passed", "passed,"}
FailedWord == {"failed", "failed,"}
\* the integer before the literal word in the last line that has one, else 0
WordCount(lines, word) == ParseCount(lines, word, 0)

\* C36 (as claimed): for each run of the tool the recorded passed (failed)
\* count is the integer immediately before the literal word passed (failed)
\* of its summary line, and 0 when no line has such an integer; verify_tests
\* then still returns its report.
C36_RootCounts ==
    (/\ Len(invoked) > 0 /\ invoked[Len(invoked)] = "root"
     /\ outcomes[Len(outcomes)] = "ok")
    => /\ verification.tests_passed = WordCount(verification.output, PassedWord)
       /\ verification.tests_failed = WordCount(verification.output, FailedWord)
       /\ vpc = "route"
C36_TypeStep ==
    \A run \in SummaryRuns :
        (/\ vpc = "types" /\ vk <= Len(TypeOrder) /\ vk' = vk + 1
         /\ run.kind = "ok"
         /\ verification' = RunType(verification, TypeOrder[vk], run))
        => /\ verification'.by_type[TypeOrder[vk]].passed = WordCount(run.stdout, PassedWord)
           /\ verification'.by_type[TypeOrder[vk]].failed = WordCount(run.stdout, FailedWord)
C36_LiteralWord == []C36_RootCounts /\ [][C36_TypeStep]_vars

\* C37 (as claimed): in a session that validated and returned, the
\* verification details the report agent read from its state are the ones
\* the validator stored in the state it was handed.
C37_DetailsReachReport ==
    (ret.returned /\ calls.validator > 0) =>
        ReadDetails(report_state) = <<verification>>

\* the latest iteration ended without a validation result
Unvalidated ==
    /\ all_iterations # <<>>
    /\ all_iterations[Len(all_iterations)].validation = NoCommand

\* C38: once an iteration has ended without a validation result, no later
\* step of the session calls the supervisor, a worker or the validator, every
\* later iteration ends without a validation result too, the loop is left at
\* iteration max_iterations only, the session then ends, and when it returns
\* it is exhausted with tests_executable = false.
C38_NothingCalled ==
    Unvalidated =>
        /\ calls'.supervisor = calls.supervisor
        /\ calls'.validator = calls.validator
        /\ calls'.llm = calls.llm /\ calls'.verify = calls.verify
        /\ dispatched' \in {dispatched, Append(dispatched, {})}
        /\ pc' \notin {"triage", "gather", "await_fix"}
        /\ Unvalidated'
        /\ ~tests_can_execute'
        /\ pc' = "report" => iteration' = max_iterations
C38_Exhausted ==
    (Unvalidated /\ ret.returned) =>
        /\ ret.total_iterations = max_iterations
        /\ ~ret.tests_executable
        /\ ret.validation = NoCommand
        /\ Len(ret.iterations) = max_iterations
C38_NoRecovery ==
    /\ []C38_Exhausted
    /\ [][C38_NothingCalled]_vars
    /\ Unvalidated ~> Finished
\* a session of two iterations whose batch timed out, returned exhausted
C38_Witness ==
    /\ ret.returned /\ timed_out
    /\ max_iterations = 2 /\ ret.total_iterations = 2
    /\ calls.supervisor = 1 /\ calls.validator = 0
    /\ ret.iterations[2].validation = NoCommand

\* C39: when the supervisor's routing call or the validator's process call
\* raises, run_parallel raises: the history keeps the records of the earlier
\* iterations and gets none for the iteration in progress, the report agent
\* is not called, and nothing is returned.
C39_RaiseStep ==
    (pc \in {"triage", "fix", "validate"} /\ pc' = "raised")
    => /\ all_iterations' = all_iterations
       /\ Len(all_iterations') = iteration - 1
       /\ all_messages' = all_messages
       /\ calls' = calls
C39_Raised ==
    pc = "raised" =>
        /\ ~ret.returned
        /\ calls.report = 0
        /\ report_state = StateDict(<<>>)
        /\ \A k \in 1..Len(all_iterations) : all_iterations[k].iteration <= iteration
C39_RaisedFrame == pc = "raised" => (pc' = "raised" /\ all_iterations' = all_iterations /\ ret' = ret)
C39_NotIsolated == []C39_Raised /\ [][C39_RaiseStep]_vars /\ [][C39_RaisedFrame]_vars
\* the validator raised in the second iteration, after one recorded iteration
C39_Witness ==
    /\ pc = "raised"
    /\ iteration = 2 /\ Len(all_iterations) = 1
    /\ calls.supervisor = 2 /\ calls.validator = 1
    /\ successful_results # <<>>

====
